---- MODULE Spec2Model ----
(***************************************************************************)
(* A model of censo_qm/utilities.py: the conformer lists handled by        *)
(* crest_routine, new_folders and print_errors, the backup rotation of     *)
(* move_recursively and the failure triage of check_tasks, the rank        *)
(* statistics (rankdata, pearson, spearman), the energies read by          *)
(* get_energy_from_ensemble, the coord files written by ensemble2coord and *)
(* x2t, the weights of calc_boltzmannweights and the table of printout.    *)
(*                                                                         *)
(* Python strings are TLA+ strings; Len, \o and SubSeq act on them the way *)
(* len, + and slicing do.  A handler of the source is one action that runs *)
(* the handler from its first line to its return, its raise or its         *)
(* sys.exit; crest_routine, which sleeps and waits for an external tool,   *)
(* is the sequence of its steps between the waits.                         *)
(***************************************************************************)
EXTENDS Integers, Sequences, FiniteSets, TLC

(***************************************************************************)
(* Bounds of the model.                                                    *)
(***************************************************************************)
\* a directory holds at most MaxFiles files when move_recursively starts
MaxFiles == 3
\* the backups filename.0 .. filename.MaxSuffix may be there at the start
MaxSuffix == 3
\* move_recursively is called at most MaxRotations times on a directory
MaxRotations == 2
\* check_tasks gets at most MaxResults results
MaxResults == 5
\* number of conformers of the ensemble (ids 1..NumConfs)
NumConfs == 2
\* optimization energies are drawn from 1..MaxEnergy
MaxEnergy == 2
\* rankdata gets lists of at most MaxSeries numbers
MaxSeries == 4
\* pearson and spearman get pairs of lists of at most MaxPair numbers each
MaxPair == 3
\* the numbers of a pair of lists are drawn from 1..MaxValue, those of a
\* list given to rankdata alone from 1..MaxValue + 1
MaxValue == 2
\* calc_boltzmannweights gets at most MaxWeighted conformers
MaxWeighted == 2
\* their energies lie 0..MaxLevel steps above the lowest possible one
MaxLevel == 2
\* the ensemble file holds at most MaxBlocks blocks
MaxBlocks == 3
\* of 1..MaxAtoms atoms each
MaxAtoms == 2
\* printout gets at most MaxRows conformers
MaxRows == 2
\* and at most MaxColumns columns
MaxColumns == 2
\* print_errors is called while save_errors holds fewer than MaxErrors lines
MaxErrors == 1
\* x2t is called at most MaxConversions times
MaxConversions == 1

Ids == 1..NumConfs

VARIABLES
    conformers,       \* crest_routine's conformers, new_folders' conflist
    prev_calculated,  \* crest_routine's prev_calculated
    store_confs,      \* the removed conformers
    save_errors,      \* new_folders' save_errors
    dirs,             \* ids whose folder CONF<id>/<foldername> exists
    xyz,              \* conformer_rotamer_check/conformers.xyz
    seed,             \* conformer_rotamer_check/coord: id it was copied from
    tags,             \* conformer_rotamer_check/enso.tags
    call,             \* the last call: its arguments and what it did
    crest,            \* crest_routine: the call under way, if there is one
    directory,        \* move_recursively: the files of path, name -> content
    before,           \* move_recursively: the directory when it was called
    moves,            \* move_recursively: the shutil.move calls, in order
    rotations,        \* move_recursively: the calls so far
    results,          \* check_tasks: job["success"] of every result
    check,            \* check_tasks: its argument check
    thresh,           \* check_tasks: its argument thresh, a fraction
    task,             \* check_tasks: where the call ended and what it printed
    series,           \* rankdata, pearson, spearman: the lists A and B
    corr,             \* the last statistic computed and how the call ended
    ensemble,         \* get_energy_from_ensemble: the ensemble file and config
    members,          \* get_energy_from_ensemble: its argument conformers
    reading,          \* get_energy_from_ensemble: how the last call ended
    coord,            \* ensemble2coord: the folders CONF<id>/<foldername>
    writing,          \* ensemble2coord, x2t: how the last call ended
    conversions,      \* x2t: the number of calls so far
    bm_confs,         \* calc_boltzmannweights: its argument confs
    temperature,      \* calc_boltzmannweights: its argument T
    weighting,        \* calc_boltzmannweights: how the last call ended
    table,            \* printout: its arguments
    outfile,          \* printout: the file at outputpath
    printed           \* printout: what the last call printed and how it ended

listVars == <<conformers, prev_calculated, store_confs, save_errors, dirs, xyz,
              seed, tags, call, crest>>
moveVars == <<directory, before, moves, rotations>>
taskVars == <<results, check, thresh, task>>
statVars == <<series, corr>>
ensVars == <<ensemble, members, reading, coord, writing, conversions>>
weightVars == <<bm_confs, temperature, weighting>>
numVars == <<statVars, ensVars, weightVars>>
reportVars == <<table, outfile, printed>>
vars == <<listVars, moveVars, taskVars, numVars, reportVars>>

(***************************************************************************)
(* Strings.                                                                *)
(***************************************************************************)
\* s[i], 1-based
Char(s, i) == SubSeq(s, i, i)

\* str(n) for an integer n
RECURSIVE StrNat(_)
StrNat(n) == IF n < 10 THEN Char("0123456789", n + 1)
             ELSE StrNat(n \div 10) \o Char("0123456789", (n % 10) + 1)

Str(n) == IF n < 0 THEN "-" \o StrNat(0 - n) ELSE StrNat(n)

\* s[1:]
DropFirst(s) == SubSeq(s, 2, Len(s))

\* s.split(): the maximal runs of non-blank characters of s, in order
RECURSIVE SplitFrom(_, _, _)
SplitFrom(s, i, word) ==
    IF i > Len(s)
    THEN IF word = "" THEN <<>> ELSE <<word>>
    ELSE IF Char(s, i) = " "
         THEN (IF word = "" THEN <<>> ELSE <<word>>) \o SplitFrom(s, i + 1, "")
         ELSE SplitFrom(s, i + 1, word \o Char(s, i))

Split(s) == SplitFrom(s, 1, "")

\* "CONF" + str(conf.id)
ConfTag(id) == "CONF" \o Str(id)

(***************************************************************************)
(* Sequences.                                                              *)
(***************************************************************************)
Range(s) == {s[i] : i \in 1..Len(s)}

\* list.index(x): the first position holding x
IndexOf(s, x) == CHOOSE i \in 1..Len(s) : s[i] = x /\ \A j \in 1..(i - 1) : s[j] # x

\* a pop that takes nothing out of the list
PopNothing(s, i) == s
\* list.pop(i), 1-based: the list without position i
Pop(s, i) == SubSeq(s, 1, i - 1) \o SubSeq(s, i + 1, Len(s))

\* list.sort(key=...): stable insertion of x into the sorted list s
RECURSIVE InsertByEnergy(_, _)
InsertByEnergy(s, x) ==
    IF s = <<>> THEN <<x>>
    ELSE IF s[Len(s)].energy <= x.energy THEN Append(s, x)
    ELSE Append(InsertByEnergy(SubSeq(s, 1, Len(s) - 1), x), s[Len(s)])

RECURSIVE SortByEnergy(_)
SortByEnergy(s) ==
    IF s = <<>> THEN <<>>
    ELSE InsertByEnergy(SortByEnergy(SubSeq(s, 1, Len(s) - 1)), s[Len(s)])

(***************************************************************************)
(* Conformers and files.                                                   *)
(***************************************************************************)
\* a conformer object: its id and its optimization_info
Conformer(id, energy, info) ==
    [id |-> id, energy |-> energy, info |-> info, cregen_sort |-> "pass"]

\* a file that does not exist, and a file holding the given lines
NoFile == [exists |-> FALSE, lines |-> <<>>]
File(lines) == [exists |-> TRUE, lines |-> lines]

\* what the last call did
NoCall ==
    [op |-> "none", crestcheck |-> FALSE, raised |-> FALSE, tool_runs |-> 0,
     exit |-> 0, wrote |-> FALSE, tags_opened |-> FALSE, out |-> <<>>,
     attempted |-> {}, conflist |-> <<>>, prev |-> <<>>, store |-> <<>>]

(***************************************************************************)
(* mkdir_p and new_folders.                                                *)
(***************************************************************************)
\* mkdir_p(CONF<id>/<foldername>): os.makedirs raises OSError when the folder
\* exists already or cannot be created (id in mkfail); the error is swallowed
\* when the path is a directory and raised again otherwise.
mkdir_p(d, id, mkfail) ==
    IF id \in d THEN [dirs |-> d, raised |-> FALSE]
    ELSE IF id \in mkfail THEN [dirs |-> d, raised |-> TRUE]
    ELSE [dirs |-> d \cup {id}, raised |-> FALSE]

\* one turn of "for conf in conflist": the list iterator holds a position i
\* into the list itself, so a pop shortens the list under the iterator
NewFoldersStepNoPop(st, mkfail) ==
    LET conf == st.conflist[st.i]
        m == mkdir_p(st.dirs, conf.id, mkfail)
    IN  IF m.raised /\ conf.id \notin m.dirs
        THEN [st EXCEPT !.i = @ + 1,
                        !.attempted = @ \cup {conf.id},
                        !.out = @ \o <<"OSError",
                                       "ERROR: Could not create folder for " \o ConfTag(conf.id) \o "!",
                                       ConfTag(conf.id) \o " is removed, because IO failed!">>,
                        !.save_errors = Append(@, ConfTag(conf.id) \o " was removed, because IO failed!"),
                        !.store_confs = Append(@, conf)]
        ELSE [st EXCEPT !.i = @ + 1,
                        !.attempted = @ \cup {conf.id},
                        !.out = IF m.raised THEN Append(@, "OSError") ELSE @,
                        !.dirs = m.dirs]

NewFoldersStep(st, mkfail) ==
    LET conf == st.conflist[st.i]
        m == mkdir_p(st.dirs, conf.id, mkfail)
    IN  IF m.raised /\ conf.id \notin m.dirs
        THEN [st EXCEPT !.i = @ + 1,
                        !.attempted = @ \cup {conf.id},
                        !.out = @ \o <<"OSError",
                                       "ERROR: Could not create folder for " \o ConfTag(conf.id) \o "!",
                                       ConfTag(conf.id) \o " is removed, because IO failed!">>,
                        !.save_errors = Append(@, ConfTag(conf.id) \o " was removed, because IO failed!"),
                        !.store_confs = Append(@, conf),
                        !.conflist = Pop(@, IndexOf(@, conf))]
        ELSE [st EXCEPT !.i = @ + 1,
                        !.attempted = @ \cup {conf.id},
                        !.out = IF m.raised THEN Append(@, "OSError") ELSE @,
                        !.dirs = m.dirs]

RECURSIVE NewFoldersLoop(_, _)
NewFoldersLoop(st, mkfail) ==
    IF st.i > Len(st.conflist) THEN st
    ELSE NewFoldersLoop(NewFoldersStep(st, mkfail), mkfail)

\* new_folders(cwd, conflist, foldername, save_errors, store_confs, silent)
\* with the active list as conflist; mkfail: the ids whose folder the file
\* system refuses to create during this call
new_folders(silent, mkfail) ==
    LET st == NewFoldersLoop([i |-> 1, conflist |-> conformers,
                              store_confs |-> store_confs,
                              save_errors |-> save_errors, dirs |-> dirs,
                              attempted |-> {}, out |-> <<>>], mkfail)
    IN  /\ conformers' = st.conflist
        /\ store_confs' = st.store_confs
        /\ save_errors' = st.save_errors
        /\ dirs' = st.dirs
        /\ call' = [NoCall EXCEPT
                      !.op = "new_folders",
                      !.attempted = st.attempted,
                      !.conflist = conformers,
                      !.prev = prev_calculated,
                      !.store = store_confs,
                      !.out = IF silent THEN st.out
                              ELSE Append(st.out, "Constructed folders!")]
        /\ UNCHANGED <<prev_calculated, xyz, seed, tags, crest, moveVars,
                       taskVars, numVars, reportVars>>

(***************************************************************************)
(* crest_routine.                                                          *)
(***************************************************************************)
\* the two header lines written for one candidate: the energy and the tag
\* (the coordinate lines that follow them are those t2x returns)
Block(conf) == [tag |-> ConfTag(conf.id), energy |-> conf.energy]

\* "for conf in allconfs: t2x(...); out.write(...)": t2x opens the coord
\* file of the candidate and raises when it cannot be read
RECURSIVE WriteLoop(_, _, _, _)
WriteLoop(allconfs, i, readable, out) ==
    IF i > Len(allconfs) THEN [blocks |-> out, raised |-> FALSE]
    ELSE IF allconfs[i].id \notin readable THEN [blocks |-> out, raised |-> TRUE]
    ELSE WriteLoop(allconfs, i + 1, readable, Append(out, Block(allconfs[i])))

\* the with-block that writes conformers.xyz: the file is opened with mode
\* "w" and the loop over allconfs runs twice
WriteTrajectoryOnce(allconfs, readable) == WriteLoop(allconfs, 1, readable, <<>>)

WriteTrajectory(allconfs, readable) ==
    LET first == WriteLoop(allconfs, 1, readable, <<>>)
    IN  IF first.raised THEN first
        ELSE WriteLoop(allconfs, 1, readable, first.blocks)

\* line.split()[1][1:] for a line with two tokens or more
SurvivorTagWhole(line) == Split(line)[2]

SurvivorTag(line) == DropFirst(Split(line)[2])

\* "for line in store: keep.append(line.split()[1][1:])"; a line with fewer
\* than two tokens raises IndexError
RECURSIVE KeepLoop(_, _, _)
KeepLoop(store, i, keep) ==
    IF i > Len(store) THEN [keep |-> keep, raised |-> FALSE]
    ELSE LET tokens == Split(store[i])
         IN  IF Len(tokens) < 2 THEN [keep |-> keep, raised |-> TRUE]
             ELSE KeepLoop(store, i + 1, Append(keep, SurvivorTag(store[i])))

\* "for conf in list(lst): if 'CONF' + str(conf.id) not in keep: ...": the
\* loop runs over a copy, marks the conformer and moves it to store_confs
RECURSIVE RemoveLoop(_, _, _, _)
RemoveLoop(copy, i, keep, st) ==
    IF i > Len(copy) THEN st
    ELSE IF ConfTag(copy[i].id) \in Range(keep)
         THEN RemoveLoop(copy, i + 1, keep, st)
         ELSE RemoveLoop(copy, i + 1, keep,
                [lst |-> Pop(st.lst, IndexOf(st.lst, copy[i])),
                 store_confs |-> Append(st.store_confs,
                                   [copy[i] EXCEPT !.info = "calculated",
                                                   !.cregen_sort = "removed"]),
                 out |-> Append(st.out, "!!!! Removing " \o ConfTag(copy[i].id)
                                          \o " because it is sorted out by CREGEN.")])

\* the block under "if config.crestcheck:"; store is unbound when enso.tags
\* could not be opened, and naming it raises NameError
RemovalUnboundAsEmpty(opened, store, confs, prev, stored) ==
    LET k == KeepLoop(IF opened THEN store ELSE <<>>, 1, <<>>)
        a == RemoveLoop(confs, 1, k.keep,
                        [lst |-> confs, store_confs |-> stored, out |-> <<>>])
        b == RemoveLoop(prev, 1, k.keep,
                        [lst |-> prev, store_confs |-> a.store_confs, out |-> a.out])
    IN  IF k.raised
        THEN [conformers |-> confs, prev_calculated |-> prev,
              store_confs |-> stored, out |-> <<"ERROR: IndexError">>]
        ELSE [conformers |-> a.lst, prev_calculated |-> b.lst,
              store_confs |-> b.store_confs, out |-> b.out]

Removal(opened, store, confs, prev, stored) ==
    IF ~opened
    THEN [conformers |-> confs, prev_calculated |-> prev,
          store_confs |-> stored, out |-> <<"ERROR: NameError">>]
    ELSE LET k == KeepLoop(store, 1, <<>>)
             a == RemoveLoop(confs, 1, k.keep,
                             [lst |-> confs, store_confs |-> stored, out |-> <<>>])
             b == RemoveLoop(prev, 1, k.keep,
                             [lst |-> prev, store_confs |-> a.store_confs,
                              out |-> a.out])
         IN  IF k.raised
             THEN [conformers |-> confs, prev_calculated |-> prev,
                   store_confs |-> stored, out |-> <<"ERROR: IndexError">>]
             ELSE [conformers |-> a.lst, prev_calculated |-> b.lst,
                   store_confs |-> b.store_confs, out |-> b.out]

\* "if config.crestcheck:"
RemovalRunsAlways(crestcheck) == TRUE

RemovalRuns(crestcheck) == crestcheck

\* crest_routine(config, conformers, func, store_confs, prev_calculated)
\* sleeps after it has written its files and blocks until the external tool
\* has ended, so a call is a sequence of steps; crest holds where the call
\* stands, config.crestcheck, what the call has printed and the lists as
\* they were when it was called
NoPass ==
    [pc |-> "idle", crestcheck |-> FALSE, exit |-> 0, wrote |-> FALSE,
     out |-> <<>>, conflist |-> <<>>, prev |-> <<>>, store |-> <<>>]

\* the record of a call that has ended: ran tells that the tool was run and
\* the call came back to its caller, opened that enso.tags could be opened
Ended(p, ran, opened, out) ==
    [NoCall EXCEPT
        !.op = "crest_routine",
        !.crestcheck = p.crestcheck,
        !.raised = ~ran,
        !.tool_runs = IF ran THEN 1 ELSE 0,
        !.exit = p.exit,
        !.wrote = p.wrote,
        !.tags_opened = opened,
        !.conflist = p.conflist,
        !.prev = p.prev,
        !.store = p.store,
        !.out = out]

\* the call up to the sleep before the tool is started: the old
\* conformers.xyz and coord are removed, the candidates are sorted by
\* energy, the coord of the first is copied and conformers.xyz is written
\*   crestcheck  config.crestcheck
\*   readable    the ids whose CONF<id>/<func>/coord can be read
CrestWrite(crestcheck, readable) ==
    /\ crest.pc = "idle"
    /\ LET allconfs == SortByEnergy(conformers \o prev_calculated)
           copied == allconfs # <<>> /\ allconfs[1].id \in readable
           copyout == IF copied THEN <<>> ELSE <<"ERROR: copy">>
           w == WriteTrajectory(allconfs, readable)
           p == [NoPass EXCEPT !.pc = "written", !.crestcheck = crestcheck,
                               !.out = copyout, !.conflist = conformers,
                               !.prev = prev_calculated, !.store = store_confs]
       IN  /\ xyz' = File(w.blocks)
           /\ seed' = IF copied THEN allconfs[1].id ELSE 0
           /\ crest' = IF w.raised THEN NoPass ELSE p
           /\ call' = IF w.raised THEN Ended(p, FALSE, FALSE, copyout) ELSE call
    /\ UNCHANGED <<conformers, prev_calculated, store_confs, tags, save_errors,
                   dirs, moveVars, taskVars, numVars, reportVars>>

\* after the sleep the tool is started: subprocess.call raises when the
\* program cannot be started and blocks until it has ended otherwise
CrestSpawn(spawned) ==
    /\ crest.pc = "written"
    /\ crest' = IF spawned THEN [crest EXCEPT !.pc = "running"] ELSE NoPass
    /\ call' = IF spawned THEN call ELSE Ended(crest, FALSE, FALSE, crest.out)
    /\ UNCHANGED <<conformers, prev_calculated, store_confs, xyz, seed, tags,
                   save_errors, dirs, moveVars, taskVars, numVars, reportVars>>

\* the external tool ends, with its exit status, having written enso.tags
\* or not
ToolEnds(tool) ==
    /\ crest.pc = "running"
    /\ tags' = IF tool.writes THEN File(tool.lines) ELSE tags
    /\ crest' = [crest EXCEPT !.pc = "exited", !.exit = tool.exit,
                              !.wrote = tool.writes]
    /\ UNCHANGED <<conformers, prev_calculated, store_confs, xyz, seed, call,
                   save_errors, dirs, moveVars, taskVars, numVars, reportVars>>

\* after the second sleep enso.tags is read and, with crestcheck, the lists
\* are pruned: the lists as they are now, not as they were at the call
CrestRead ==
    /\ crest.pc = "exited"
    /\ LET readout == IF tags.exists THEN <<>>
                      ELSE <<"ERROR: open",
                             "ERROR: output file (enso.tags) of CREST routine does not exist!">>
           r == Removal(tags.exists, tags.lines, conformers, prev_calculated,
                        store_confs)
           done == RemovalRuns(crest.crestcheck)
       IN  /\ conformers' = IF done THEN r.conformers ELSE conformers
           /\ prev_calculated' = IF done THEN r.prev_calculated
                                 ELSE prev_calculated
           /\ store_confs' = IF done THEN r.store_confs ELSE store_confs
           /\ call' = Ended(crest, TRUE, tags.exists,
                            crest.out \o readout
                                \o (IF done THEN r.out ELSE <<>>))
    /\ crest' = NoPass
    /\ UNCHANGED <<xyz, seed, tags, save_errors, dirs, moveVars, taskVars,
                   numVars, reportVars>>

\* print_errors(line, save_errors): the line is printed and appended
print_errors(line) ==
    /\ save_errors' = Append(save_errors, line)
    /\ call' = [NoCall EXCEPT !.op = "print_errors", !.out = <<line>>]
    /\ UNCHANGED <<conformers, prev_calculated, store_confs, dirs, xyz, seed,
                   tags, crest, moveVars, taskVars, numVars, reportVars>>

(***************************************************************************)
(* splitting and move_recursively.                                         *)
(***************************************************************************)
\* sub in s
Contains(s, sub) ==
    \E i \in 1..(Len(s) - Len(sub) + 1) : SubSeq(s, i, i + Len(sub) - 1) = sub

\* the position of the last "." of s, 0 when s has none
LastDot(s) ==
    IF \E i \in 1..Len(s) : Char(s, i) = "."
    THEN CHOOSE i \in 1..Len(s) :
            Char(s, i) = "." /\ \A j \in (i + 1)..Len(s) : Char(s, j) # "."
    ELSE 0

\* s.rsplit(".", 1) for an s that holds a "."
RSplit(s) == <<SubSeq(s, 1, LastDot(s) - 1), SubSeq(s, LastDot(s) + 1, Len(s))>>

IsDigit(c) == \E d \in 0..9 : c = Char("0123456789", d + 1)

DigitValue(c) == CHOOSE d \in 0..9 : c = Char("0123456789", d + 1)

\* int(s) raises no ValueError: an optional sign, then digits (of the
\* characters that occur in the file names of the model)
IsInt(s) ==
    LET body == IF Len(s) > 0 /\ Char(s, 1) \in {"-", "+"} THEN DropFirst(s) ELSE s
    IN  Len(body) > 0 /\ \A i \in 1..Len(body) : IsDigit(Char(body, i))

RECURSIVE NatValue(_)
NatValue(s) ==
    IF s = "" THEN 0
    ELSE 10 * NatValue(SubSeq(s, 1, Len(s) - 1)) + DigitValue(Char(s, Len(s)))

\* int(s)
Int_(s) ==
    IF Char(s, 1) = "-" THEN 0 - NatValue(DropFirst(s))
    ELSE IF Char(s, 1) = "+" THEN NatValue(DropFirst(s))
    ELSE NatValue(s)

\* splitting(item), for an item that holds a "."
splitting(item) == IF IsInt(RSplit(item)[2]) THEN Int_(RSplit(item)[2]) ELSE 0

\* newfiles.sort(key=splitting, reverse=True): stable, items with equal keys
\* keep the order of the listing
RECURSIVE InsertAscending(_, _)
InsertAscending(s, x) ==
    IF s = <<>> THEN <<x>>
    ELSE IF splitting(s[Len(s)]) <= splitting(x) THEN Append(s, x)
    ELSE Append(InsertAscending(SubSeq(s, 1, Len(s) - 1), x), s[Len(s)])

RECURSIVE SortAscending(_)
SortAscending(s) ==
    IF s = <<>> THEN <<>>
    ELSE InsertAscending(SortAscending(SubSeq(s, 1, Len(s) - 1)), s[Len(s)])

RECURSIVE InsertDescending(_, _)
InsertDescending(s, x) ==
    IF s = <<>> THEN <<x>>
    ELSE IF splitting(s[Len(s)]) >= splitting(x) THEN Append(s, x)
    ELSE Append(InsertDescending(SubSeq(s, 1, Len(s) - 1), x), s[Len(s)])

RECURSIVE SortDescending(_)
SortDescending(s) ==
    IF s = <<>> THEN <<>>
    ELSE InsertDescending(SortDescending(SubSeq(s, 1, Len(s) - 1)), s[Len(s)])

\* the names of a directory
Names(dir) == {f.name : f \in dir}

\* shutil.move(src, dst) on files of one directory: dst is replaced when it
\* exists
Move(dir, src, dst) ==
    {f \in dir : f.name # src /\ f.name # dst}
    \cup {[name |-> dst, content |-> f.content] : f \in {g \in dir : g.name = src}}

\* [f for f in files if filename + "." in f], in the order of the listing
RECURSIVE Matching(_, _)
Matching(files, filename) ==
    IF files = <<>> THEN <<>>
    ELSE (IF Contains(files[1], filename \o ".") THEN <<files[1]>> ELSE <<>>)
         \o Matching(Tail(files), filename)

\* "for item in newfiles": items whose suffix is no integer are passed over,
\* the others are moved to <prefix>.<suffix + 1>
RECURSIVE RenameLoop(_, _, _)
RenameLoop(newfiles, i, st) ==
    IF i > Len(newfiles) THEN st
    ELSE LET data == RSplit(newfiles[i])
         IN  IF ~IsInt(data[2]) THEN RenameLoop(newfiles, i + 1, st)
             ELSE LET newfilename == data[1] \o "." \o Str(Int_(data[2]) + 1)
                  IN  RenameLoop(newfiles, i + 1,
                        [dir |-> Move(st.dir, newfiles[i], newfilename),
                         moves |-> Append(st.moves,
                                     [src |-> newfiles[i], dst |-> newfilename,
                                      clobbers |-> newfilename \in Names(st.dir)])])

\* move_recursively(path, filename); files is os.listdir(path), whose order
\* is arbitrary
move_recursively(files, filename) ==
    LET newfiles == SortDescending(Matching(files, filename))
        st == RenameLoop(newfiles, 1, [dir |-> directory, moves |-> <<>>])
        bare == filename \in Range(files)
    IN  /\ before' = directory
        /\ directory' = IF bare THEN Move(st.dir, filename, filename \o ".1")
                        ELSE st.dir
        /\ moves' = IF bare
                    THEN Append(st.moves,
                           [src |-> filename, dst |-> filename \o ".1",
                            clobbers |-> (filename \o ".1") \in Names(st.dir)])
                    ELSE st.moves
        /\ rotations' = rotations + 1
        /\ UNCHANGED <<listVars, taskVars, numVars, reportVars>>

(***************************************************************************)
(* check_tasks.                                                            *)
(***************************************************************************)
\* "for item in results: if not item.job['success']: counter += 1"
RECURSIVE CountFailed(_, _, _)
CountFailed(res, i, counter) ==
    IF i > Len(res) THEN counter
    ELSE CountFailed(res, i + 1, IF ~res[i] THEN counter + 1 ELSE counter)

\* "fail_rate >= thresh" for fail_rate = float(counter) / float(total) and
\* thresh = th.num / th.den.  The thresholds of the model are binary
\* fractions and the counts are small, so the rounded quotient compares
\* with thresh as the exact one does.
OverThresholdStrict(counter, total, th) == counter * th.den > th.num * total

OverThreshold(counter, total, th) == counter * th.den >= th.num * total

\* check_tasks(results, check, thresh)
check_tasks(res, chk, th) ==
    LET counter == CountFailed(res, 1, 0)
    IN  IF Len(res) = 0
        THEN [pc |-> "exited", exit |-> 1,
              out |-> <<"ERROR: Too many calculations failed!\nGoing to exit!">>]
        ELSE IF OverThreshold(counter, Len(res), th) /\ chk
        THEN [pc |-> "exited", exit |-> 1,
              out |-> <<"ERROR: % of the calculations failed!\nGoing to exit!">>]
        ELSE IF OverThreshold(counter, Len(res), th)
        THEN [pc |-> "returned", exit |-> 0,
              out |-> <<"WARNING: % of the calculations failed!">>]
        ELSE [pc |-> "returned", exit |-> 0, out |-> <<>>]

(***************************************************************************)
(* The environment of crest_routine and new_folders.                       *)
(***************************************************************************)
\* a line of enso.tags naming a survivor: "<index> !CONF<id>"
TagLine(id) == Str(id) \o " !" \o ConfTag(id)

\* the survivor lines of the ids of S, in ascending id order
RECURSIVE SurvivorLines(_, _)
SurvivorLines(S, i) ==
    IF i > NumConfs THEN <<>>
    ELSE (IF i \in S THEN <<TagLine(i)>> ELSE <<>>) \o SurvivorLines(S, i + 1)

\* tags files made of survivor lines only
CleanTagFiles == {SurvivorLines(S, 1) : S \in SUBSET Ids}

\* tags files: survivor lines, possibly followed by an empty line, and the
\* full file followed by a line with one token only
TagFiles ==
    CleanTagFiles
    \cup {Append(l, "") : l \in CleanTagFiles}
    \cup {Append(SurvivorLines(Ids, 1), "1")}

\* what the external tool may do
ToolRun(exit, lines) ==
    [spawned |-> TRUE, exit |-> exit, writes |-> TRUE, lines |-> lines]

ToolSilent(exit) ==
    [spawned |-> TRUE, exit |-> exit, writes |-> FALSE, lines |-> <<>>]

ToolMissing == [spawned |-> FALSE, exit |-> 0, writes |-> FALSE, lines |-> <<>>]

ToolOutcomes ==
    {ToolMissing}
    \cup {ToolSilent(e) : e \in {0, 1}}
    \cup {ToolRun(e, l) : e \in {0, 1}, l \in TagFiles}

\* the tool succeeds and sorts out at most one conformer
ToolSortsOutOne ==
    {ToolRun(0, SurvivorLines(Ids \ S, 1)) : S \in {{}} \cup {{i} : i \in Ids}}

\* every coord file can be read, or all but one
AtMostOneUnreadable == {Ids} \cup {Ids \ {i} : i \in Ids}

\* the conformers first..last in id order
ConformerList(first, last, energies, info) ==
    [i \in 1..(last - first + 1) |->
        Conformer(first + i - 1, energies[first + i - 1], info)]

\* energies that fall with the id, so that sorting reorders the lists
FallingEnergies == [i \in Ids |-> 1 + ((NumConfs - i) % MaxEnergy)]

\* what an earlier run may have left in the scratch directory
StaleXyz == File(<<[tag |-> "CONF1", energy |-> MaxEnergy]>>)

\* the subsystems a specification leaves alone
IdleLists ==
    /\ conformers = <<>> /\ prev_calculated = <<>> /\ store_confs = <<>>
    /\ save_errors = <<>> /\ dirs = {} /\ xyz = NoFile /\ seed = 0
    /\ tags = NoFile /\ call = NoCall /\ crest = NoPass

IdleMove ==
    /\ directory = {} /\ before = {} /\ moves = <<>> /\ rotations = 0

IdleTasks ==
    /\ results = <<>> /\ check = FALSE /\ thresh = [num |-> 0, den |-> 1]
    /\ task = [pc |-> "idle", exit |-> 0, out |-> <<>>]

IdleStats ==
    /\ series = [A |-> <<>>, B |-> <<>>] /\ corr = [op |-> "idle"]

IdleEnsemble ==
    /\ ensemble = [exists |-> FALSE, nat |-> 0, maxconf |-> 0,
                   nconf |-> [set |-> FALSE, val |-> 0], lines |-> <<>>]
    /\ members = <<>> /\ reading = [op |-> "idle"]
    /\ coord = <<>> /\ writing = [op |-> "idle"] /\ conversions = 0

IdleWeights ==
    /\ bm_confs = <<>> /\ temperature = [type |-> "NoneType"]
    /\ weighting = [op |-> "idle"]

IdleNumeric == IdleStats /\ IdleEnsemble /\ IdleWeights

IdleReport ==
    /\ table = [calculate |-> <<>>, columncall |-> <<>>]
    /\ outfile = NoFile /\ printed = [op |-> "idle"]

\* the lists at the start: conformers 1..k are to be calculated, the others
\* were calculated by an earlier run
InitLists(EnergySets) ==
    /\ \E k \in 0..NumConfs, energies \in EnergySets :
          /\ conformers = ConformerList(1, k, energies, "calculated")
          /\ prev_calculated =
                ConformerList(k + 1, NumConfs, energies, "prev_calculated")
    /\ store_confs = <<>>
    /\ save_errors = <<>>
    /\ dirs = {}
    /\ \/ xyz = NoFile /\ seed = 0
       \/ xyz = StaleXyz /\ seed = 1
    /\ tags = NoFile
    /\ call = NoCall
    /\ crest = NoPass
    /\ IdleMove
    /\ IdleTasks
    /\ IdleNumeric
    /\ IdleReport

\* the steps of crest_routine and of the tool it waits for
CrestRoutine(Readables, Tools) ==
    \/ \E crestcheck \in BOOLEAN, readable \in Readables :
          CrestWrite(crestcheck, readable)
    \/ \E tool \in Tools : CrestSpawn(tool.spawned)
    \/ \E tool \in Tools : tool.spawned /\ ToolEnds(tool)
    \/ CrestRead

\* the lines print_errors is called with, while save_errors is short
ErrorLines == {"ERROR: something else failed"}
PrintErrors ==
    \E line \in ErrorLines :
        Len(save_errors) < MaxErrors /\ print_errors(line)

NewFolders ==
    \E silent \in BOOLEAN, mkfail \in SUBSET Ids : new_folders(silent, mkfail)

\* duplicate detection, pass after pass, with every behaviour of the tool
InitCrest == InitLists({FallingEnergies})
NextCrest == CrestRoutine({Ids}, ToolOutcomes)
SpecCrest == InitCrest /\ [][NextCrest]_vars

\* the trajectory written by a pass, for all energies
InitTraj == InitLists([Ids -> 1..MaxEnergy])
NextTraj == CrestRoutine(AtMostOneUnreadable, ToolSortsOutOne)
SpecTraj == InitTraj /\ [][NextTraj]_vars

\* folder creation, duplicate detection and error lines in any order, the
\* other two also while a pass of duplicate detection waits
InitPipeline == InitLists({FallingEnergies})
NextPipeline ==
    CrestRoutine({Ids}, ToolSortsOutOne) \/ NewFolders \/ PrintErrors
SpecPipeline == InitPipeline /\ [][NextPipeline]_vars

\* the file name move_recursively is called with, and the files a directory
\* may hold at the start
FileName == "f"

StartNames ==
    {FileName}
    \cup {FileName \o "." \o Str(k) : k \in 0..MaxSuffix}
    \cup {FileName \o ".01", FileName \o ".-1", FileName \o ".save",
          FileName \o ".save.1", "x" \o FileName \o ".1", "g"}

\* every file holds its own first name as content
InitMove ==
    /\ \E S \in SUBSET StartNames :
          /\ Cardinality(S) <= MaxFiles
          /\ directory = {[name |-> n, content |-> n] : n \in S}
    /\ before = {}
    /\ moves = <<>>
    /\ rotations = 0
    /\ IdleLists
    /\ IdleTasks
    /\ IdleNumeric
    /\ IdleReport

\* the listings os.listdir may return: the names of the directory in any order
Listings(dir) ==
    {l \in [1..Cardinality(dir) -> Names(dir)] : Range(l) = Names(dir)}

MoveRecursively ==
    /\ rotations < MaxRotations
    /\ \E files \in Listings(directory) : move_recursively(files, FileName)

NextMove == MoveRecursively
SpecMove == InitMove /\ [][NextMove]_vars

\* the thresholds check_tasks is called with: 0, 0.25 (the default), 0.5,
\* 0.75 and 1
Thresholds == {[num |-> q, den |-> 4] : q \in 0..4}

RECURSIVE SeqsUpTo(_, _)
SeqsUpTo(S, n) ==
    IF n = 0 THEN {<<>>}
    ELSE SeqsUpTo(S, n - 1) \cup [1..n -> S]

InitTasks ==
    /\ results \in SeqsUpTo(BOOLEAN, MaxResults)
    /\ check \in BOOLEAN
    /\ thresh \in Thresholds
    /\ task = [pc |-> "called", exit |-> 0, out |-> <<>>]
    /\ IdleLists
    /\ IdleMove
    /\ IdleNumeric
    /\ IdleReport

CheckTasks ==
    /\ task.pc = "called"
    /\ task' = check_tasks(results, check, thresh)
    /\ UNCHANGED <<results, check, thresh, listVars, moveVars, numVars,
                   reportVars>>

NextTasks == CheckTasks
SpecTasks == InitTasks /\ [][NextTasks]_vars

(***************************************************************************)
(* rank_simple, rankdata, pearson, spearman.                               *)
(*                                                                         *)
(* The lists hold integers.  A rank is a multiple of 0.5: the model keeps  *)
(* twice the rank, an integer.  Python's indices 0..n-1 are kept in the    *)
(* loop counters; a list element a[i] of the source is a[i + 1] here.      *)
(***************************************************************************)
RECURSIVE Sum(_)
Sum(s) == IF s = <<>> THEN 0 ELSE s[1] + Sum(Tail(s))

\* sum([x[i] * y[i] for i in range(n)])
Dot(x, y, n) == Sum([i \in 1..n |-> x[i] * y[i]])

\* sorted() is stable: an index goes behind every index whose value is not
\* larger
RECURSIVE RankSimpleFrom(_, _, _)
RankSimpleFrom(vector, i, acc) ==
    IF i > Len(vector) THEN acc
    ELSE RankSimpleFrom(vector, i + 1,
             LET p == Cardinality({j \in 1..Len(acc) :
                                      vector[acc[j] + 1] <= vector[i]})
             IN  SubSeq(acc, 1, p) \o <<i - 1>> \o SubSeq(acc, p + 1, Len(acc)))

\* sorted(range(len(vector)), key=vector.__getitem__): the 0-based indices
\* of vector in ascending order of their values
rank_simple(vector) == RankSimpleFrom(vector, 1, <<>>)

\* svec[i] != svec[i + 1] is false: the two values are tied
TiedWithinOne(x, y) == y - x <= 1
Tied(x, y) == x = y

\* twice averank = sumranks / float(dupcount) + 1; sumranks is the sum of
\* dupcount consecutive integers, so 2 * sumranks is a multiple of dupcount
SumRank(sumranks, dupcount) == 2 * sumranks + 2
AveRank(sumranks, dupcount) == (2 * sumranks) \div dupcount + 2

RECURSIVE RankLoop(_, _, _, _, _, _)
RankLoop(ivec, svec, i, sumranks, dupcount, newarray) ==
    LET n == Len(ivec)
        s == sumranks + i
        d == dupcount + 1
    IN  IF i >= n THEN newarray
        ELSE IF i = n - 1 \/ ~Tied(svec[i + 1], svec[i + 2])
        THEN RankLoop(ivec, svec, i + 1, 0, 0,
                 [k \in 1..n |->
                     IF \E j \in (i - d + 1)..i : ivec[j + 1] = k - 1
                     THEN AveRank(s, d)
                     ELSE newarray[k]])
        ELSE RankLoop(ivec, svec, i + 1, s, d, newarray)

\* twice the ranks of a
rankdata(a) ==
    LET ivec == rank_simple(a)
        svec == [k \in 1..Len(a) |-> a[ivec[k] + 1]]
    IN  RankLoop(ivec, svec, 0, 0, 0, [k \in 1..Len(a) |-> 0])

\* the number num / sqrt(den2)
Ratio(num, den2) == [num |-> num, den2 |-> den2]
\* 0.0
Zero == Ratio(0, 1)

StatRaised(exc, out) ==
    [raised |-> TRUE, exc |-> exc, value |-> Zero, out |-> out]
StatReturned(value, out) ==
    [raised |-> FALSE, exc |-> "", value |-> value, out |-> out]

\* n is len(A) for both lists.  With x the list and mu = sum(x) / n,
\* n * n * sum((x[i] - mu)^2) is SqDev(x, n); it is 0 exactly when
\* the standard deviation computed by the source is 0.0
SqDev(x, n) ==
    LET s == Sum(x)
    IN  n * n * Dot(x, x, Len(x)) - 2 * n * s * s + Len(x) * s * s

pearson(A, B) ==
    LET n == Len(A)
        out == IF Len(A) # Len(B)
               THEN <<"ERROR in PEARSON lists are not of equal length!">>
               ELSE <<>>
    IN  IF n = 0 THEN StatRaised("ZeroDivisionError", out)
        ELSE IF n = 1 THEN StatRaised("ZeroDivisionError", out)
        ELSE IF Len(B) < n THEN StatRaised("IndexError", out)
        ELSE IF SqDev(A, n) = 0 \/ SqDev(B, n) = 0
        THEN StatReturned(Zero, out \o <<"WARNING:  float division by zero">>)
        ELSE StatReturned(Ratio(n * (n * Dot(A, B, n) - Sum(A) * Sum(B)),
                                SqDev(A, n) * SqDev(B, n)),
                          out)

spearman(A, B) == pearson(rankdata(A), rankdata(B))

\* the lists the statistics are called with
SeriesValues == 1..(MaxValue + 1)

SeriesPairs ==
    {[A |-> a, B |-> b] :
        a \in SeqsUpTo(1..MaxValue, MaxPair),
        b \in SeqsUpTo(1..MaxValue, MaxPair)}
    \cup {[A |-> a, B |-> <<>>] : a \in SeqsUpTo(SeriesValues, MaxSeries)}

InitStats ==
    /\ series \in SeriesPairs
    /\ corr = [op |-> "called"]
    /\ IdleLists
    /\ IdleMove
    /\ IdleTasks
    /\ IdleReport
    /\ IdleEnsemble
    /\ IdleWeights

Rankdata ==
    /\ corr' = [op |-> "rankdata", ranks |-> rankdata(series.A)]
    /\ UNCHANGED <<series, listVars, moveVars, taskVars, ensVars, weightVars,
                   reportVars>>

StatCall(op, r) ==
    [op |-> op, raised |-> r.raised, exc |-> r.exc, value |-> r.value,
     out |-> r.out]

Pearson ==
    /\ corr' = StatCall("pearson", pearson(series.A, series.B))
    /\ UNCHANGED <<series, listVars, moveVars, taskVars, ensVars, weightVars,
                   reportVars>>

Spearman ==
    /\ corr' = StatCall("spearman", spearman(series.A, series.B))
    /\ UNCHANGED <<series, listVars, moveVars, taskVars, ensVars, weightVars,
                   reportVars>>

NextStats == Rankdata \/ Pearson \/ Spearman
SpecStats == InitStats /\ [][NextStats]_vars

(***************************************************************************)
(* float() and attributes that may be None.                                *)
(***************************************************************************)
\* an attribute that is None, and one that holds a number
None == [set |-> FALSE, val |-> 0]
Some(v) == [set |-> TRUE, val |-> v]

Unsigned(s) ==
    IF Len(s) > 0 /\ Char(s, 1) \in {"-", "+"} THEN DropFirst(s) ELSE s

\* the digits in front of the "." of an unsigned number, and those behind it
Whole(s) == IF LastDot(s) = 0 THEN s ELSE SubSeq(s, 1, LastDot(s) - 1)
Fraction(s) == IF LastDot(s) = 0 THEN "" ELSE SubSeq(s, LastDot(s) + 1, Len(s))

\* float(s) raises no ValueError, for an s without blanks, exponent, "inf"
\* or "nan": an optional sign, then digits with at most one "." among them
IsFloat(s) ==
    LET whole == Whole(Unsigned(s))
        frac == Fraction(Unsigned(s))
    IN  /\ Len(whole) + Len(frac) > 0
        /\ \A i \in 1..Len(whole) : IsDigit(Char(whole, i))
        /\ \A i \in 1..Len(frac) : IsDigit(Char(frac, i))

\* float(s) in tenths; the numbers of the model have at most one digit
\* behind the "."
Float(s) ==
    LET whole == Whole(Unsigned(s))
        frac == Fraction(Unsigned(s))
        tenths == 10 * NatValue(whole)
                  + (IF frac = "" THEN 0 ELSE DigitValue(Char(frac, 1)))
    IN  IF Char(s, 1) = "-" THEN 0 - tenths ELSE tenths

(***************************************************************************)
(* calc_boltzmannweights.                                                  *)
(*                                                                         *)
(* A temperature is held in units of 0.00001 K.  An energy is held as a    *)
(* whole number of steps of KB * 298.15 K * ln(2) / AU2J hartree, so that  *)
(* at T = 298.15 K / k the factor exp(-(E - minfree) * AU2J / (KB * T))    *)
(* of a conformer d steps above minfree is 2^-(d * k).  A weight is the    *)
(* fraction num / den.                                                     *)
(***************************************************************************)
\* T = 298.15 of the except branch
DefaultT == 29815000
\* the 0.00001 that is added to a T of 0
EpsilonT == 1
\* math.exp gives 0.0 below 2^-1074 and raises OverflowError from 2^1024 on
UnderflowExp == 1074
OverflowExp == 1024

NoneType == [type |-> "NoneType", val |-> 0, text |-> ""]
Number(v) == [type |-> "float", val |-> v, text |-> ""]
Text(s) == [type |-> "str", val |-> 0, text |-> s]

\* T = float(T), with 298.15 when float raises ValueError; None makes float
\* raise TypeError, which the except branch does not catch
Coerce(T) ==
    IF T.type = "float" THEN [raised |-> FALSE, val |-> T.val, out |-> <<>>]
    ELSE IF T.type = "str"
    THEN IF IsFloat(T.text)
         THEN [raised |-> FALSE, val |-> Float(T.text) * 10000, out |-> <<>>]
         ELSE [raised |-> FALSE, val |-> DefaultT,
               out |-> <<"Temperature can not be converted and is therfore set to T = 298.15 K.">>]
    ELSE [raised |-> TRUE, val |-> 0, out |-> <<>>]

\* if T == 0: T += 0.00001
Nudge(t) == IF t = 0 THEN t + EpsilonT ELSE t

\* getattr(conf, property, None)
Attr(conf, property) ==
    IF property = "free_energy" THEN conf.free_energy ELSE conf.energy

RECURSIVE MinOf(_)
MinOf(S) ==
    LET x == CHOOSE y \in S : TRUE
    IN  IF S = {x} THEN x
        ELSE LET m == MinOf(S \ {x}) IN IF x < m THEN x ELSE m

\* the values of the property that are not None
Present(cs, property) ==
    {Attr(cs[i], property).val : i \in {j \in 1..Len(cs) : Attr(cs[j], property).set}}

\* the binary exponent of the factor of a conformer: the factor is 2^-Exponent
Exponent(conf, minfree, t) == (conf.free_energy.val - minfree) * (DefaultT \div t)

\* what evaluating the term of a conformer raises, "" when it raises nothing
TermError(conf, bound, minfree, t) ==
    IF ~bound THEN "UnboundLocalError"
    ELSE IF ~conf.free_energy.set THEN "TypeError"
    ELSE IF 0 - Exponent(conf, minfree, t) >= OverflowExp THEN "OverflowError"
    ELSE ""

\* a term that math.exp rounds to 0.0
Vanishes(conf, minfree, t) == Exponent(conf, minfree, t) > UnderflowExp

\* gi * exp(...) as a multiple of 2^-top, top the largest exponent of a term
\* that does not vanish
Term(conf, minfree, t, top) ==
    IF Vanishes(conf, minfree, t) THEN 0
    ELSE conf.gi * 2 ^ (top - Exponent(conf, minfree, t))

\* the first exception of the loop that sums up bsum, "" when there is none
RECURSIVE FirstError(_, _, _, _)
FirstError(cs, bound, minfree, t) ==
    IF cs = <<>> THEN ""
    ELSE IF TermError(cs[1], bound, minfree, t) # ""
         THEN TermError(cs[1], bound, minfree, t)
         ELSE FirstError(Tail(cs), bound, minfree, t)

MaxOf(S) == 0 - MinOf({0 - x : x \in S})

WeightsDone(cs, T, raised, exc, out) ==
    [confs |-> cs, T |-> T, raised |-> raised, exc |-> exc, out |-> out]

\* len(confs) == 1
SingleNever(cs) == FALSE
Single(cs) == Len(cs) = 1

calc_boltzmannweights(cs, property, T) ==
    IF Single(cs)
    THEN WeightsDone([cs EXCEPT ![1].bm_weight = Some([num |-> 1, den |-> 1])],
                     T, FALSE, "", <<>>)
    ELSE IF Coerce(T).raised
    THEN WeightsDone(cs, T, TRUE, "TypeError", <<>>)
    ELSE
    LET t == Nudge(Coerce(T).val)
        present == Present(cs, property)
        bound == present # {}
        minfree == IF bound THEN MinOf(present) ELSE 0
        out == Coerce(T).out \o
               (IF bound THEN <<>>
                ELSE <<"ERROR: Boltzmann weight can not be calculated!">>)
        error == FirstError(cs, bound, minfree, t)
        finite == {Exponent(cs[i], minfree, t) :
                      i \in {j \in 1..Len(cs) : ~Vanishes(cs[j], minfree, t)}}
        top == IF finite = {} THEN 0 ELSE MaxOf(finite)
        bsum == Sum([i \in 1..Len(cs) |-> Term(cs[i], minfree, t, top)])
    IN  IF error # "" THEN WeightsDone(cs, Number(t), TRUE, error, out)
        ELSE IF cs # <<>> /\ bsum = 0
        THEN WeightsDone(cs, Number(t), TRUE, "ZeroDivisionError", out)
        ELSE WeightsDone(
                 [i \in 1..Len(cs) |->
                     [cs[i] EXCEPT !.bm_weight =
                         Some([num |-> Term(cs[i], minfree, t, top),
                               den |-> bsum])]],
                 Number(t), FALSE, "", out)

\* the degeneracies gi of the conformers; a conformer without the attribute
\* counts with 1.0
Degeneracies == {1, 2}

\* the values of an energy attribute: None, or 0..MaxLevel steps
Levels == {None} \cup {Some(l) : l \in 0..MaxLevel}

\* the temperatures the function is called with: 298.15, 149.075, 0, "0",
\* "abc" and None
Temperatures ==
    {Number(DefaultT), Number(DefaultT \div 2), Number(0), Text("0"),
     Text("abc"), NoneType}

\* the attribute "energy" of a conformer, next to its free_energy: the same
\* value, None, the value counted down from MaxLevel, or 0
Patterns == {"same", "none", "mirror", "ground"}

Other(pattern, fe) ==
    IF pattern = "same" THEN fe
    ELSE IF pattern = "none" THEN None
    ELSE IF pattern = "mirror"
         THEN (IF fe.set THEN Some(MaxLevel - fe.val) ELSE None)
    ELSE Some(0)

Properties == {"free_energy", "energy"}

InitWeights ==
    /\ \E n \in 0..MaxWeighted, pattern \in Patterns :
          \E fe \in [1..n -> Levels], g \in [1..n -> Degeneracies] :
              bm_confs = [i \in 1..n |->
                            [id |-> i, free_energy |-> fe[i],
                             energy |-> Other(pattern, fe[i]), gi |-> g[i],
                             bm_weight |-> None]]
    /\ temperature \in Temperatures
    /\ weighting = [op |-> "called"]
    /\ IdleLists
    /\ IdleMove
    /\ IdleTasks
    /\ IdleReport
    /\ IdleStats
    /\ IdleEnsemble

CalcBoltzmannweights ==
    \E property \in Properties :
        LET r == calc_boltzmannweights(bm_confs, property, temperature)
        IN  /\ bm_confs' = r.confs
            /\ weighting' = [op |-> "calc_boltzmannweights",
                             property |-> property, prev |-> bm_confs,
                             T |-> r.T, raised |-> r.raised, exc |-> r.exc,
                             out |-> r.out]
            /\ UNCHANGED <<temperature, listVars, moveVars, taskVars,
                           statVars, ensVars, reportVars>>

NextWeights == CalcBoltzmannweights
SpecWeights == InitWeights /\ [][NextWeights]_vars

(***************************************************************************)
(* check_for_float and get_energy_from_ensemble.                           *)
(*                                                                         *)
(* An energy is held in tenths of a hartree; a rel_xtb_energy is held in   *)
(* units of AU2KCAL / 10, that is as the difference of two energies.       *)
(***************************************************************************)
RECURSIVE FirstFloat(_)
FirstFloat(elements) ==
    IF elements = <<>> THEN None
    ELSE IF IsFloat(elements[1]) THEN Some(Float(elements[1]))
    ELSE FirstFloat(Tail(elements))

\* the first element of line.strip().split() that float() converts, or None
FloatOrZero(line) ==
    IF FirstFloat(Split(line)).set THEN FirstFloat(Split(line)) ELSE Some(0)
check_for_float(line) == FirstFloat(Split(line))

\* conformers.sort(key=lambda x: int(x.id)), for conformers of distinct ids
RECURSIVE SortById(_)
SortById(cs) ==
    IF cs = <<>> THEN <<>>
    ELSE LET i == CHOOSE j \in 1..Len(cs) : \A k \in 1..Len(cs) : cs[j].id <= cs[k].id
         IN  <<cs[i]>> \o SortById(Pop(cs, i))

\* data[(conf.id - 1) * (config.nat + 2) + 1], as a 1-based position
BlockStart(id, nat) == (id - 1) * (nat + 2) + 1
EnergyLine(id, nat) == (id - 1) * (nat + 2) + 2

EnsembleDone(cs, raised, exc, returned, out) ==
    [confs |-> cs, raised |-> raised, exc |-> exc, returned |-> returned,
     out |-> out]

\* the loop that assigns xtb_energy and rel_xtb_energy; e maps an id to its
\* energy; bound is false once "except ... as e" has unbound the name e
RECURSIVE AssignLoop(_, _, _, _, _, _)
AssignLoop(cs, i, e, lowest, bound, out) ==
    IF i > Len(cs) THEN EnsembleDone(cs, FALSE, "", "conformers", out)
    ELSE IF ~bound THEN EnsembleDone(cs, TRUE, "UnboundLocalError", "", out)
    ELSE IF e[cs[i].id].set
    THEN AssignLoop(
             [cs EXCEPT ![i].xtb_energy = e[cs[i].id],
                        ![i].rel_xtb_energy = Some(e[cs[i].id].val - lowest)],
             i + 1, e, lowest, bound, out)
    ELSE AssignLoop(
             [cs EXCEPT ![i].xtb_energy = None], i + 1, e, lowest, FALSE,
             out \o <<"unsupported operand type(s) for -: 'NoneType' and 'float'">>)

\* lowest = float(min(...))
Highest(valid) == MaxOf(valid)
Lowest(valid) == MinOf(valid)

\* file: the lines of the ensemble file with config.nat, config.maxconf and
\* config.nconf; open raises when there is no file at path; the length test
\* is on maxconf, the message names nconf, and a config without the
\* attribute nconf makes the message raise
get_energy_from_ensemble(file, cs) ==
    LET data == file.lines
        short == file.maxconf * (file.nat + 2) > Len(data)
        out == IF short
               THEN <<"ERROR: Either the number of conformers ("
                      \o Str(file.nconf.val) \o ") or the number of atoms ("
                      \o Str(file.nat) \o ") is wrong!">>
               ELSE <<>>
        sorted == SortById(cs)
        ids == {sorted[i].id : i \in 1..Len(sorted)}
    IN  IF ~file.exists
        THEN EnsembleDone(cs, TRUE, "FileNotFoundError", "", <<>>)
        ELSE IF short /\ ~file.nconf.set
        THEN EnsembleDone(cs, TRUE, "AttributeError", "", <<>>)
        ELSE IF \E id \in ids : EnergyLine(id, file.nat) > Len(data)
        THEN EnsembleDone(sorted, TRUE, "IndexError", "", out)
        ELSE
        LET e == [id \in ids |-> check_for_float(data[EnergyLine(id, file.nat)])]
            valid == {e[id].val : id \in {x \in ids : e[x].set}}
        IN  IF valid = {}
            THEN EnsembleDone(sorted, FALSE, "", "None",
                     out \o <<"WARNING: Can't calculate rel_xtb_energy!">>)
            ELSE AssignLoop(sorted, 1, e, Lowest(valid), TRUE, out)

\* os.path.basename(config.ensemblepath)
EnsembleName == "crest_conformers.xyz"

\* str.lower() of the element symbols of the model
Lower(s) == IF s = "H" THEN "h" ELSE IF s = "C" THEN "c" ELSE s

\* one line of data[start:end], t being line.split(): t[0].lower() and the
\* floats of t[1], t[2] and t[3], or the exception that one of them raises.
\* A coordinate is held in units of BOHR2ANG / 10 bohr, that is as the
\* tenths of the number read.
AtomRaises(exc) == [exc |-> exc, atom |-> "", x |-> 0, y |-> 0, z |-> 0]
AtomFrom(t) ==
    IF Len(t) < 2 THEN AtomRaises("IndexError")
    ELSE IF ~IsFloat(t[2]) THEN AtomRaises("ValueError")
    ELSE IF Len(t) < 3 THEN AtomRaises("IndexError")
    ELSE IF ~IsFloat(t[3]) THEN AtomRaises("ValueError")
    ELSE IF Len(t) < 4 THEN AtomRaises("IndexError")
    ELSE IF ~IsFloat(t[4]) THEN AtomRaises("ValueError")
    ELSE [exc |-> "", atom |-> Lower(t[1]), x |-> Float(t[2]),
          y |-> Float(t[3]), z |-> Float(t[4])]
AtomOf(line) == AtomFrom(Split(line))

\* data[start:end] with start = (i - 1) * (nat + 2) + 2 and
\* end = i * (nat + 2): the lines there are of it, none when start is behind
\* the last line
AtomLines(data, id, nat) ==
    LET first == (id - 1) * (nat + 2) + 3
        last == IF id * (nat + 2) < Len(data) THEN id * (nat + 2) ELSE Len(data)
    IN  IF first > last THEN <<>> ELSE SubSeq(data, first, last)

CoordDone(folders, raised, exc, out) ==
    [folders |-> folders, raised |-> raised, exc |-> exc, out |-> out]

\* the loop over conflist: folders[id] is the folder CONF<id>/<foldername>,
\* there or not, with its file coord, there or not; coordxyz holds the lines
\* written between "$coord" and "$end", newline tells whether a line end
\* follows "$end"
RECURSIVE CoordLoop(_, _, _, _, _)
CoordLoop(conflist, k, file, folders, out) ==
    IF k > Len(conflist) THEN CoordDone(folders, FALSE, "", out)
    ELSE
    LET id == conflist[k].id
        lines == AtomLines(file.lines, id, file.nat)
        atoms == [j \in 1..Len(lines) |-> AtomOf(lines[j])]
        bad == {j \in 1..Len(lines) : atoms[j].exc # ""}
        coordxyz == [j \in 1..Len(lines) |->
                        [atom |-> atoms[j].atom, x |-> atoms[j].x,
                         y |-> atoms[j].y, z |-> atoms[j].z]]
    IN  IF bad # {}
        THEN CoordDone(folders, TRUE, atoms[MinOf(bad)].exc, out)
        ELSE IF folders[id].isfile
        THEN CoordLoop(conflist, k + 1, file, folders, out)
        ELSE IF ~folders[id].isdir
        THEN CoordDone(folders, TRUE, "FileNotFoundError", out)
        ELSE CoordLoop(conflist, k + 1, file,
                 [folders EXCEPT ![id] = [isdir |-> TRUE, isfile |-> TRUE,
                                          coordxyz |-> coordxyz,
                                          newline |-> FALSE]],
                 out)

\* file as for get_energy_from_ensemble; conflist is gone through in the
\* order it has
ensemble2coord(file, conflist, folders) ==
    LET short == file.maxconf * (file.nat + 2) > Len(file.lines)
        out == IF short
               THEN <<"ERROR: Either the number of conformers ("
                      \o Str(file.nconf.val) \o ") or the number of atoms ("
                      \o Str(file.nat) \o ") is wrong!">>
               ELSE <<>>
    IN  IF ~file.exists
        THEN CoordDone(folders, TRUE, "FileNotFoundError",
                 <<"ERROR: File " \o EnsembleName \o " does not exist!">>)
        ELSE IF short /\ ~file.nconf.set
        THEN CoordDone(folders, TRUE, "AttributeError", <<>>)
        ELSE CoordLoop(conflist, 1, file, folders, out)

\* x2t(path) for path the folder CONF<id>/<foldername>, which holds the
\* file inp.xyz (infile, with its lines) or not: the lines xyz[2:] are read as
\* by ensemble2coord and coord is written whether it is there or not
x2t(id, infile, folders) ==
    LET lines == SubSeq(infile.lines, 3, Len(infile.lines))
        atoms == [j \in 1..Len(lines) |-> AtomOf(lines[j])]
        bad == {j \in 1..Len(lines) : atoms[j].exc # ""}
        coordxyz == [j \in 1..Len(lines) |->
                        [atom |-> atoms[j].atom, x |-> atoms[j].x,
                         y |-> atoms[j].y, z |-> atoms[j].z]]
    IN  IF ~folders[id].isdir \/ ~infile.exists
        THEN CoordDone(folders, TRUE, "FileNotFoundError", <<>>)
        ELSE IF bad # {}
        THEN CoordDone(folders, TRUE, atoms[MinOf(bad)].exc, <<>>)
        ELSE CoordDone(
                 [folders EXCEPT ![id] = [isdir |-> TRUE, isfile |-> TRUE,
                                          coordxyz |-> coordxyz,
                                          newline |-> TRUE]],
                 FALSE, "", <<>>)

\* the energy lines of the ensemble files of the model
EnergyLines == {"E -10.0 7", "-10.5", "E x"}

\* the lines of an atom of the ensemble files of the model: a symbol and
\* three coordinates, or a line that lacks a coordinate, or a line with a
\* coordinate that is no number
AtomLine == "H 0.0 0.0 0.0"
Truncated == "C 1.5 -0.5"
Unreadable == "C 1.5 x 0.0"
AtomKinds == {AtomLine, Truncated, Unreadable}

\* a block of the ensemble file: the number of atoms, the energy line, the
\* atoms
EnsembleBlock(nat, line, atom) ==
    <<Str(nat), line>> \o [a \in 1..nat |-> atom]

\* the blocks of a file; the atoms of its last block are of the given kind
RECURSIVE Blocks(_, _, _)
Blocks(nat, energylines, atom) ==
    IF energylines = <<>> THEN <<>>
    ELSE IF Len(energylines) = 1
    THEN EnsembleBlock(nat, energylines[1], atom)
    ELSE EnsembleBlock(nat, energylines[1], AtomLine)
         \o Blocks(nat, Tail(energylines), atom)

\* what an earlier call has left on a conformer
Stale == Some(0)

\* the conformers of the given ids, in ascending or in descending order; a
\* conformer of odd id has its energies from an earlier call
RECURSIVE Ascending(_)
Ascending(S) ==
    IF S = {} THEN <<>>
    ELSE <<MinOf(S)>> \o Ascending(S \ {MinOf(S)})

Reverse(s) == [i \in 1..Len(s) |-> s[Len(s) + 1 - i]]

Member(id) ==
    [id |-> id,
     xtb_energy |-> IF id % 2 = 1 THEN Stale ELSE None,
     rel_xtb_energy |-> IF id % 2 = 1 THEN Stale ELSE None]

MemberLists(S) ==
    {[i \in 1..Cardinality(S) |-> Member(order[i])] :
        order \in {Ascending(S), Reverse(Ascending(S))}}

\* the ids the function is called for: the first k ids, or all but one
IdSets(maxconf) ==
    {1..k : k \in 0..maxconf} \cup {(1..maxconf) \ {i} : i \in 1..maxconf}

\* the file coord that an earlier part has left in a folder
Left == <<[atom |-> "h", x |-> 10, y |-> 0, z |-> 0]>>

\* the folders CONF<id>/<foldername> of the ids 1..n: all there and without
\* a file coord, or the first with a file coord of an earlier part, or the
\* last not there
Folders(n) ==
    LET fresh == [id \in 1..n |->
                     [isdir |-> TRUE, isfile |-> FALSE, coordxyz |-> <<>>,
                      newline |-> FALSE]]
    IN  {fresh,
         [fresh EXCEPT ![1] = [isdir |-> TRUE, isfile |-> TRUE,
                               coordxyz |-> Left, newline |-> FALSE]],
         [fresh EXCEPT ![n] = [isdir |-> FALSE, isfile |-> FALSE,
                               coordxyz |-> <<>>, newline |-> FALSE]]}

\* the files inp.xyz of the model: none, or the number of atoms, a comment
\* and the lines of the atoms, or a first line alone, or a file that ends
\* with an empty line
Shifted == "C 1.5 -0.5 0.0"
XyzFiles ==
    {NoFile, File(<<"1", "", Shifted>>), File(<<"2", "", AtomLine, Shifted>>),
     File(<<"1", "", Truncated>>), File(<<"1", "", Unreadable>>),
     File(<<"1">>), File(<<"1", "", AtomLine, "">>)}

\* config.maxconf is the number of blocks of the file, or one more;
\* config.nconf is the number of blocks, equal to config.maxconf or not, or
\* the config has no such attribute; or there is no file at path
InitEnsemble ==
    /\ \E nat \in 1..MaxAtoms, b \in 0..MaxBlocks :
          \E energylines \in [1..b -> EnergyLines], maxconf \in {b, b + 1},
             nconf \in {Some(b), None}, exists \in {b > 0, TRUE} :
              /\ ensemble = [exists |-> exists, nat |-> nat,
                             maxconf |-> maxconf, nconf |-> nconf,
                             lines |-> Blocks(nat, energylines, AtomLine)]
              /\ \E S \in IdSets(maxconf) : members \in MemberLists(S)
    /\ reading = [op |-> "called"]
    /\ coord = <<>> /\ writing = [op |-> "idle"] /\ conversions = 0
    /\ IdleLists
    /\ IdleMove
    /\ IdleTasks
    /\ IdleReport
    /\ IdleStats
    /\ IdleWeights

GetEnergyFromEnsemble ==
    LET r == get_energy_from_ensemble(ensemble, members)
    IN  /\ members' = r.confs
        /\ reading' = [op |-> "get_energy_from_ensemble", prev |-> members,
                       raised |-> r.raised, exc |-> r.exc,
                       returned |-> r.returned, out |-> r.out]
        /\ UNCHANGED <<ensemble, coord, writing, conversions, listVars,
                       moveVars, taskVars, statVars, weightVars, reportVars>>

NextEnsemble == GetEnergyFromEnsemble
SpecEnsemble == InitEnsemble /\ [][NextEnsemble]_vars

\* the ensemble files and configs as for get_energy_from_ensemble, with one
\* energy line and with the atoms of each kind
InitCoord ==
    /\ \E nat \in 1..MaxAtoms, b \in 0..MaxBlocks :
          \E maxconf \in {b, b + 1}, nconf \in {Some(b), None},
             atom \in AtomKinds, exists \in {b > 0, TRUE} :
              /\ ensemble = [exists |-> exists, nat |-> nat,
                             maxconf |-> maxconf, nconf |-> nconf,
                             lines |-> Blocks(nat, [i \in 1..b |-> "-10.5"],
                                              atom)]
              /\ \E S \in IdSets(maxconf) : members \in MemberLists(S)
    /\ coord \in Folders(MaxBlocks + 1)
    /\ reading = [op |-> "idle"]
    /\ writing = [op |-> "called"] /\ conversions = 0
    /\ IdleLists
    /\ IdleMove
    /\ IdleTasks
    /\ IdleReport
    /\ IdleStats
    /\ IdleWeights

Ensemble2Coord ==
    LET r == ensemble2coord(ensemble, members, coord)
    IN  /\ coord' = r.folders
        /\ writing' = [op |-> "ensemble2coord", prev |-> coord,
                       raised |-> r.raised, exc |-> r.exc, out |-> r.out]
        /\ UNCHANGED <<ensemble, members, reading, conversions, listVars,
                       moveVars, taskVars, statVars, weightVars, reportVars>>

\* x2t on the first folder or on a folder that is not there; there is no
\* inp.xyz in a folder that is not there
X2t ==
    /\ conversions < MaxConversions
    /\ \E id \in {1} \cup {n \in 1..Len(coord) : ~coord[n].isdir},
          infile \in XyzFiles :
          /\ coord[id].isdir \/ ~infile.exists
          /\ LET r == x2t(id, infile, coord)
             IN  /\ coord' = r.folders
                 /\ writing' = [op |-> "x2t", prev |-> coord, path |-> id,
                                infile |-> infile, raised |-> r.raised,
                                exc |-> r.exc, out |-> r.out]
    /\ conversions' = conversions + 1
    /\ UNCHANGED <<ensemble, members, reading, listVars, moveVars, taskVars,
                   statVars, weightVars, reportVars>>

NextCoord == Ensemble2Coord \/ X2t
SpecCoord == InitCoord /\ [][NextCoord]_vars

(***************************************************************************)
(* printout.                                                               *)
(*                                                                         *)
(* A float is held in tenths, as for the ensemble energies; an element of  *)
(* columncall is named by the attribute it reads; an element of            *)
(* columnformat is "" or a pair (width, precision).  The console is the    *)
(* sequence of the lines printed.                                          *)
(***************************************************************************)
\* the width of every column after a caught exception
FallbackWidth == 12

\* " " * n
RECURSIVE Spaces(_)
Spaces(n) == IF n <= 0 THEN "" ELSE " " \o Spaces(n - 1)

\* f"{s:>{w}}" and f"{s:{w}}" of a string s
RightJustified(s, w) == Spaces(w - Len(s)) \o s
LeftJustified(s, w) == s \o Spaces(w - Len(s))

RECURSIVE Zeros(_)
Zeros(n) == IF n <= 0 THEN "" ELSE "0" \o Zeros(n - 1)

\* f"{x:.{p}f}" of a float of v tenths, for p >= 1
Fixed(v, p) ==
    LET a == IF v < 0 THEN 0 - v ELSE v
    IN  (IF v < 0 THEN "-" ELSE "") \o StrNat(a \div 10) \o "."
            \o StrNat(a % 10) \o Zeros(p - 1)

\* " ".join(cells)
RECURSIVE Join(_)
Join(cells) ==
    IF cells = <<>> THEN ""
    ELSE IF Len(cells) = 1 THEN cells[1]
    ELSE cells[1] \o " " \o Join(Tail(cells))

\* s.split(c) for a single character c
RECURSIVE SplitAt(_, _)
SplitAt(s, c) ==
    IF ~Contains(s, c) THEN <<s>>
    ELSE LET i == CHOOSE k \in 1..Len(s) :
                      Char(s, k) = c /\ \A m \in 1..(k - 1) : Char(s, m) # c
         IN  <<SubSeq(s, 1, i - 1)>> \o SplitAt(SubSeq(s, i + 1, Len(s)), c)

\* the value of an expression, or the exception it raises
Value(v) == [ok |-> TRUE, val |-> v, exc |-> "", msg |-> ""]
Fault(exc, msg) == [ok |-> FALSE, val |-> "", exc |-> exc, msg |-> msg]
OutOfRange == Fault("IndexError", "list index out of range")

\* the format entries: "" and (7, 2)
NoFormat == [set |-> FALSE, width |-> 0, prec |-> 0]
TwoDigits == [set |-> TRUE, width |-> 7, prec |-> 2]

\* columncall[j](conf): "CONF" + str(conf.id), or conf.free_energy
Call(accessor, conf) ==
    IF accessor = "id" THEN Text("CONF" \o Str(conf.id))
    ELSE IF conf.free_energy.set THEN Number(conf.free_energy.val)
    ELSE NoneType

\* f"{x:{w}.{p}f}"
FormatFixed(x, w, p) ==
    IF x.type = "float" THEN Value(RightJustified(Fixed(x.val, p), w))
    ELSE IF x.type = "str"
    THEN Fault("ValueError", "Unknown format code 'f' for object of type 'str'")
    ELSE Fault("TypeError",
               "unsupported format string passed to NoneType.__format__")

\* f"{x:{w}}": a string to the left, a float to the right
FormatPlain(x, w) ==
    IF x.type = "str" THEN Value(LeftJustified(x.text, w))
    ELSE IF x.type = "float" THEN Value(RightJustified(Fixed(x.val, 1), w))
    ELSE Fault("TypeError",
               "unsupported format string passed to NoneType.__format__")

\* the length of a cell when the width of its column is computed
CellLength(x, format) ==
    IF format.set
    THEN LET f == FormatFixed(x, format.width, format.prec)
         IN  IF f.ok THEN Value(Len(f.val)) ELSE f
    ELSE IF x.type = "str" THEN Value(Len(x.text))
    ELSE Fault("TypeError", "object of type '" \o x.type \o "' has no len()")

\* max([... for i in map(columncall[j], calculate)]): the first cell that
\* cannot be measured raises, and so does max of no cell
ColumnWidth(j, a) ==
    LET cells == [k \in 1..Len(a.calculate) |->
                     CellLength(Call(a.columncall[j], a.calculate[k]),
                                a.columnformat[j])]
        bad == {k \in 1..Len(a.calculate) : ~cells[k].ok}
    IN  IF bad # {} THEN cells[MinOf(bad)]
        ELSE IF a.calculate = <<>>
        THEN Fault("ValueError", "max() arg is an empty sequence")
        ELSE Value(MaxOf({cells[k].val : k \in 1..Len(a.calculate)}))

\* the descriptions that are units stay whole
Units == {"[Eh]", "[kcal/mol]", "[a.u.]"}

\* the loop that splits a description at "[": the part from "[" on goes to
\* columndescription2
RECURSIVE SplitLoop(_, _, _)
SplitLoop(i, description, description2) ==
    IF i > Len(description)
    THEN [description |-> description, description2 |-> description2,
          raised |-> FALSE]
    ELSE IF Contains(description[i], "[") /\ description[i] \notin Units
    THEN IF i > Len(description2)
         THEN [description |-> description, description2 |-> description2,
               raised |-> TRUE]
         ELSE SplitLoop(i + 1,
                        [description EXCEPT
                            ![i] = SplitAt(description[i], "[")[1]],
                        [description2 EXCEPT
                            ![i] = "[" \o SplitAt(description[i], "[")[2]])
    ELSE SplitLoop(i + 1, description, description2)

\* the widest of the header and the two descriptions of column j
TitleWidth(j, a) ==
    MaxOf({Len(a.columndescription[j]), Len(a.columnheader[j]),
           Len(a.columndescription2[j])})

\* the loop that computes the widths: ValueError and TypeError are caught
\* and make the loop end with FallbackWidth appended for every column
RECURSIVE WidthLoop(_, _, _)
WidthLoop(j, collength, a) ==
    IF j > Len(a.columncall)
    THEN [collength |-> collength, raised |-> FALSE, out |-> <<>>]
    ELSE IF j > Len(a.columnformat)
    THEN [collength |-> collength, raised |-> TRUE, out |-> <<>>]
    ELSE LET w == ColumnWidth(j, a)
         IN  IF ~w.ok
             THEN [collength |-> collength \o
                                 [i \in 1..Len(a.columncall) |-> FallbackWidth],
                   raised |-> FALSE,
                   out |-> <<"", "", "ERRROR " \o w.msg>>]
             ELSE IF \/ j > Len(a.columndescription)
                     \/ j > Len(a.columnheader)
                     \/ j > Len(a.columndescription2)
             THEN [collength |-> Append(collength, w.val), raised |-> TRUE,
                   out |-> <<>>]
             ELSE WidthLoop(j + 1,
                            Append(collength,
                                   IF TitleWidth(j, a) > w.val
                                   THEN TitleWidth(j, a) ELSE w.val),
                            a)

\* the three lines above the rows; the third only when columndescription2
\* is not empty
HeadLines(a, collength) ==
    LET n == Len(a.columncall)
        line(texts) ==
            Join([i \in 1..n |-> RightJustified(texts[i], collength[i])])
    IN  <<line(a.columnheader), line(a.columndescription)>>
            \o (IF a.columndescription2 # <<>>
                THEN <<line(a.columndescription2)>> ELSE <<>>)

\* the cells of the row of one conformer, from column i on
RECURSIVE RowCells(_, _, _, _, _)
RowCells(i, conf, cells, a, collength) ==
    IF i > Len(a.columncall) THEN Value(cells)
    ELSE IF i > Len(a.columnformat) THEN OutOfRange
    ELSE LET x == Call(a.columncall[i], conf)
             f == IF a.columnformat[i].set
                  THEN FormatFixed(x, collength[i], a.columnformat[i].prec)
                  ELSE FormatPlain(x, collength[i])
         IN  IF ~f.ok THEN f
             ELSE RowCells(i + 1, conf, Append(cells, f.val), a, collength)

Marker == "    <------"

\* not (conf.free_energy != minfree)
MarkedAlways(conf, minfree) == TRUE
Marked(conf, minfree) == conf.free_energy = minfree

RowLine(cells, conf, minfree) ==
    IF Marked(conf, minfree) THEN Join(cells \o <<Marker>>) ELSE Join(cells)

\* the rows, until one cannot be formatted
RECURSIVE RowLoop(_, _, _, _)
RowLoop(k, lines, a, collength) ==
    IF k > Len(a.calculate)
    THEN [lines |-> lines, raised |-> FALSE, exc |-> ""]
    ELSE LET r == RowCells(1, a.calculate[k], <<>>, a, collength)
         IN  IF ~r.ok THEN [lines |-> lines, raised |-> TRUE, exc |-> r.exc]
             ELSE RowLoop(k + 1,
                          Append(lines, RowLine(r.val, a.calculate[k], a.minfree)),
                          a, collength)

\* calculate.sort(key=lambda x: int(x.id))
SortCalculate(calculate) == SortById(calculate)

\* no list is as long as columncall
NoLengthFits(a) ==
    /\ Len(a.columnheader) # Len(a.columncall)
    /\ Len(a.columndescription) # Len(a.columncall)
    /\ Len(a.columnformat) # Len(a.columncall)

\* how a call ends: the arguments as the caller sees them afterwards, the
\* file and whether the call opened it, the lines printed, and the
\* exception if one was raised
PrintoutDone(a, file, opened, console, exc) ==
    [table |-> a, file |-> file, opened |-> opened, console |-> console,
     raised |-> exc # "", exc |-> exc]

\* printout(outputpath, columncall, columnheader, columndescription,
\*          columnformat, calculate, minfree, columndescription2)
printout(file, args) ==
    LET n == Len(args.columncall)
        warning == IF NoLengthFits(args)
                   THEN <<"Lists of uneqal length!">> ELSE <<>>
        s == SplitLoop(1, args.columndescription,
                       IF args.columndescription2 = <<>>
                       THEN [i \in 1..n |-> ""] ELSE args.columndescription2)
        \* the lists of the caller: a columndescription2 made here is not
        \* the caller's
        seen == [args EXCEPT
                    !.calculate = SortCalculate(args.calculate),
                    !.columndescription = s.description,
                    !.columndescription2 =
                        IF args.columndescription2 = <<>> THEN <<>>
                        ELSE s.description2]
        a == [seen EXCEPT !.columndescription2 = s.description2]
        w == WidthLoop(1, <<>>, a)
        head == HeadLines(a, w.collength)
        rows == RowLoop(1, <<>>, a, w.collength)
    IN  IF s.raised \/ w.raised
        THEN PrintoutDone(seen, file, FALSE, warning, "IndexError")
        ELSE IF \/ n > Len(a.columnheader) \/ n > Len(a.columndescription)
                \/ (a.columndescription2 # <<>> /\ n > Len(a.columndescription2))
        THEN PrintoutDone(seen, file, FALSE, warning \o w.out, "IndexError")
        ELSE PrintoutDone(seen, File(head \o rows.lines), TRUE,
                          warning \o w.out \o head \o rows.lines, rows.exc)

(***************************************************************************)
(* The tables printout is called with.                                     *)
(***************************************************************************)
\* free energies, in tenths: none, 0.0 and -10.5
FreeEnergies == {None, Some(0), Some(0 - 105)}

\* the columns are taken in turn from the two accessors
Accessors == <<"id", "free_energy">>
ColumnCalls ==
    {[i \in 1..n |-> Accessors[((i + first) % 2) + 1]] :
        n \in 1..MaxColumns, first \in 0..1}

HeaderOf(accessor) == IF accessor = "id" THEN "CONF#" ELSE "G"

\* the description of the free energy is a unit or names a method
DescriptionOf(accessor, style) ==
    IF accessor = "id" THEN ""
    ELSE IF style = "unit" THEN "[Eh]" ELSE "GFN2[ALPB]"

\* the format that suits every column, (7, 2) for all, or "" for all
FormatOf(accessor, style) ==
    IF style = "fixed" THEN TwoDigits
    ELSE IF style = "plain" THEN NoFormat
    ELSE IF accessor = "id" THEN NoFormat ELSE TwoDigits

\* the lists that go with columncall: one of them, or all, may be one
\* shorter or one longer, the longer ones going on in turn
Longer(columncall) == Append(columncall, Accessors[(Len(columncall) % 2) + 1])
Resized(columncall, which, list, by) ==
    IF which \notin {list, "all"} \/ by = 0 THEN columncall
    ELSE IF by > 0 THEN Longer(columncall)
    ELSE SubSeq(columncall, 1, Len(columncall) - 1)

Tables ==
    {[calculate |-> calc, minfree |-> minfree, columncall |-> columncall,
      columnheader |->
          [i \in 1..Len(Resized(columncall, which, "header", by)) |->
              HeaderOf(Resized(columncall, which, "header", by)[i])],
      columndescription |->
          [i \in 1..Len(Resized(columncall, which, "description", by)) |->
              DescriptionOf(Resized(columncall, which, "description", by)[i],
                            described)],
      columnformat |->
          [i \in 1..Len(Resized(columncall, which, "format", by)) |->
              FormatOf(Resized(columncall, which, "format", by)[i], formatted)],
      columndescription2 |->
          IF second /\ by = 0 THEN [i \in 1..Len(columncall) |-> ""] ELSE <<>>] :
        calc \in UNION {{[i \in 1..n |->
                             [id |-> order[i], free_energy |-> fe[order[i]]]] :
                            order \in {Ascending(1..n), Reverse(Ascending(1..n))},
                            fe \in [1..n -> FreeEnergies]} : n \in 0..MaxRows},
        minfree \in {None, Some(0 - 105)},
        columncall \in ColumnCalls,
        which \in {"header", "description", "format", "all"},
        by \in {0 - 1, 0, 1},
        described \in {"unit", "method"},
        formatted \in {"fit", "fixed", "plain"},
        second \in BOOLEAN}

\* a file of an earlier call
StaleTable == File(<<"old">>)

InitPrintout ==
    /\ table \in Tables
    /\ outfile \in {NoFile, StaleTable}
    /\ printed = [op |-> "called"]
    /\ IdleLists
    /\ IdleMove
    /\ IdleTasks
    /\ IdleNumeric

Printout ==
    /\ printed.op = "called"
    /\ LET r == printout(outfile, table)
       IN  /\ table' = r.table
           /\ outfile' = r.file
           /\ printed' = [op |-> "printout", prev |-> table, was |-> outfile,
                          opened |-> r.opened, console |-> r.console,
                          raised |-> r.raised, exc |-> r.exc]
    /\ UNCHANGED <<listVars, moveVars, taskVars, numVars>>

NextPrintout == Printout
SpecPrintout == InitPrintout /\ [][NextPrintout]_vars

(***************************************************************************)
(* Claims about crest_routine and new_folders.                             *)
(***************************************************************************)
\* the ids of the conformers of a list
IdsOf(s) == {s[i].id : i \in 1..Len(s)}

\* the list holds a conformer with the given id
HasId(lst, id) == \E i \in 1..Len(lst) : lst[i].id = id

\* the last call was a crest_routine pass and no pass is under way; it came
\* back to its caller
CrestEnded == call.op = "crest_routine" /\ crest.pc = "idle"
CrestReturned == CrestEnded /\ ~call.raised

\* a line of the tags file names CONF<id>: its second token, without its
\* first character, is the tag
NamesSurvivor(line, id) ==
    /\ Len(Split(line)) >= 2
    /\ LET token == Split(line)[2]
       IN  /\ Len(token) = Len("CONF" \o Str(id)) + 1
           /\ SubSeq(token, 2, Len(token)) = "CONF" \o Str(id)

IsSurvivor(id) == \E i \in 1..Len(tags.lines) : NamesSurvivor(tags.lines[i], id)

TagsWellFormed == \A i \in 1..Len(tags.lines) : Len(Split(tags.lines[i])) >= 2

\* C1: after any sequence of crest_routine and new_folders calls no id is
\* both in an active list and in store_confs, no id occurs twice, and the
\* ids of all lists together are the ids the run started with.
C1_IdsConserved ==
    LET active == conformers \o prev_calculated
        all == active \o store_confs
    IN  /\ IdsOf(active) \cap IdsOf(store_confs) = {}
        /\ \A i, j \in 1..Len(all) : i # j => all[i].id # all[j].id
        /\ IdsOf(all) = Ids

C1_Witness ==
    /\ save_errors # <<>>
    /\ \E i \in 1..Len(store_confs) : store_confs[i].cregen_sort = "removed"
    /\ \E i \in 1..Len(store_confs) : store_confs[i].cregen_sort = "pass"

\* C2: with crestcheck true and a tags file whose lines all have two tokens,
\* a candidate is in store_confs after the pass exactly if its tag is no
\* survivor tag; a moved candidate carries info "calculated" and cregen_sort
\* "removed" in store_confs; a survivor stays in its list, unchanged.
C2_RemovalFollowsTags ==
    (CrestReturned /\ call.crestcheck /\ call.tags_opened /\ TagsWellFormed) =>
        /\ \A i \in 1..Len(call.conflist) :
              LET c == call.conflist[i]
              IN  /\ HasId(store_confs, c.id) <=> ~IsSurvivor(c.id)
                  /\ ~IsSurvivor(c.id) =>
                        [c EXCEPT !.info = "calculated", !.cregen_sort = "removed"]
                            \in Range(store_confs)
                  /\ IsSurvivor(c.id) => c \in Range(conformers)
        /\ \A i \in 1..Len(call.prev) :
              LET c == call.prev[i]
              IN  /\ HasId(store_confs, c.id) <=> ~IsSurvivor(c.id)
                  /\ ~IsSurvivor(c.id) =>
                        [c EXCEPT !.info = "calculated", !.cregen_sort = "removed"]
                            \in Range(store_confs)
                  /\ IsSurvivor(c.id) => c \in Range(prev_calculated)

C2_Witness ==
    /\ CrestReturned /\ call.crestcheck /\ call.tags_opened /\ TagsWellFormed
    /\ \E i \in 1..Len(call.prev) :
          /\ ~IsSurvivor(call.prev[i].id)
          /\ call.prev[i].info = "prev_calculated"
    /\ \E i \in 1..Len(call.conflist) : IsSurvivor(call.conflist[i].id)

\* C3: with crestcheck false the tool still runs once and enso.tags is still
\* read, but the three lists keep their members, their order and every
\* optimization_info, whatever the tags file holds.
C3_NoRemovalWithoutCrestcheck ==
    (CrestEnded /\ ~call.crestcheck) =>
        /\ conformers = call.conflist
        /\ prev_calculated = call.prev
        /\ store_confs = call.store
        /\ ~call.raised => (call.tool_runs = 1 /\ call.tags_opened = tags.exists)

C3_Witness ==
    /\ CrestReturned /\ ~call.crestcheck /\ call.tags_opened
    /\ \E i \in 1..Len(conformers) : ~IsSurvivor(conformers[i].id)
    /\ \E i \in 1..Len(prev_calculated) : ~IsSurvivor(prev_calculated[i].id)

\* C4: when enso.tags cannot be opened after the tool has run, an error is
\* printed, no conformer is moved and crest_routine returns normally.
C4_MissingTagsMovesNothing ==
    (CrestEnded /\ call.tool_runs = 1 /\ ~tags.exists) =>
        /\ "ERROR: output file (enso.tags) of CREST routine does not exist!"
              \in Range(call.out)
        /\ conformers = call.conflist
        /\ prev_calculated = call.prev
        /\ store_confs = call.store
        /\ ~call.raised

C4_Witness ==
    /\ CrestEnded /\ call.tool_runs = 1 /\ ~tags.exists
    /\ call.crestcheck
    /\ conformers # <<>> /\ prev_calculated # <<>>

\* C5: with crestcheck true, a nonzero exit status of the tool is reported
\* and no conformer is moved to store_confs in that pass, also when an
\* enso.tags file is in the scratch directory.
C5_NonzeroExitMovesNothing ==
    (CrestReturned /\ call.crestcheck /\ call.exit # 0) =>
        /\ store_confs = call.store
        /\ \E i \in 1..Len(call.out) : SubSeq(call.out[i], 1, 5) = "ERROR"

\* C6: conformers.xyz as a pass leaves it holds 2N blocks for the N
\* candidates of the pass, whatever was on disk before: blocks 1..N are the
\* candidates in ascending energy order, blocks N+1..2N repeat them, each
\* block is tagged CONF<id>, and the seed coord file is that of block 1.
C6_TrajectoryHoldsCandidatesTwice ==
    CrestReturned =>
        LET cands == call.conflist \o call.prev
            N == Len(cands)
            b == xyz.lines
        IN  /\ xyz.exists
            /\ Len(b) = 2 * N
            /\ \A i \in 1..N :
                  /\ b[N + i] = b[i]
                  /\ \E j \in 1..N :
                        b[i] = [tag |-> "CONF" \o Str(cands[j].id),
                                energy |-> cands[j].energy]
                  /\ \A j \in 1..N : j # i => b[j].tag # b[i].tag
                  /\ i < N => b[i].energy <= b[i + 1].energy
            /\ N > 0 => b[1].tag = "CONF" \o Str(seed)

C6_Witness ==
    /\ CrestReturned
    /\ Len(call.conflist) >= 1 /\ Len(call.prev) >= 1
    /\ call.conflist[1].energy > call.prev[Len(call.prev)].energy
    /\ Len(xyz.lines) = 2 * NumConfs

\* C7: for every conformer in conflist when new_folders is called, folder
\* creation is attempted, and on return either its folder exists and it is
\* still in conflist, or it is in store_confs and save_errors holds
\* 'CONF<id> was removed, because IO failed!'; a failure for one conformer
\* does not skip any other.
C7_EveryConformerHandled ==
    call.op = "new_folders" =>
        \A i \in 1..Len(call.conflist) :
            LET c == call.conflist[i]
            IN  /\ c.id \in call.attempted
                /\ \/ c.id \in dirs /\ c \in Range(conformers)
                   \/ /\ c \in Range(store_confs)
                      /\ ("CONF" \o Str(c.id) \o " was removed, because IO failed!")
                            \in Range(save_errors)

(***************************************************************************)
(* Claims about move_recursively.                                          *)
(***************************************************************************)
\* filename.k
ChainName(k) == FileName \o "." \o Str(k)

\* the largest suffix a file can carry in the model
TopSuffix == MaxSuffix + MaxRotations

\* the directory held filename and files filename.k with k > 0 only
ChainOnly(dir) ==
    /\ FileName \in Names(dir)
    /\ \A n \in Names(dir) : n = FileName \/ \E k \in 1..TopSuffix : n = ChainName(k)

\* C8: for a directory holding filename and files filename.k with distinct
\* positive k, move_recursively leaves every former filename.k as
\* filename.(k+1), the former filename as filename.1 and no file named
\* filename; the renames go in descending order of k, the bare file last.
C8_RotationShiftsChain ==
    (rotations >= 1 /\ ChainOnly(before)) =>
        /\ directory =
              {[name |-> ChainName(1), content |-> f.content] :
                  f \in {g \in before : g.name = FileName}}
              \cup UNION {{[name |-> ChainName(k + 1), content |-> f.content] :
                              f \in {g \in before : g.name = ChainName(k)}} :
                          k \in 1..TopSuffix}
        /\ Len(moves) = Cardinality(before)
        /\ moves[Len(moves)].src = FileName
        /\ moves[Len(moves)].dst = ChainName(1)
        /\ \A i \in 1..(Len(moves) - 1) :
              \E k \in 1..TopSuffix :
                 /\ moves[i].src = ChainName(k)
                 /\ moves[i].dst = ChainName(k + 1)
                 /\ \A j \in (i + 1)..(Len(moves) - 1) :
                       \E m \in 1..(k - 1) : moves[j].src = ChainName(m)

C8_Witness ==
    /\ Names(before) = {FileName, ChainName(1), ChainName(3)}
    /\ moves = <<[src |-> "f.3", dst |-> "f.4", clobbers |-> FALSE],
                 [src |-> "f.1", dst |-> "f.2", clobbers |-> FALSE],
                 [src |-> "f", dst |-> "f.1", clobbers |-> FALSE]>>
    /\ directory = {[name |-> "f.4", content |-> "f.3"],
                    [name |-> "f.2", content |-> "f.1"],
                    [name |-> "f.1", content |-> "f"]}

\* the directory held filename and files filename.<integer> only
IntegerSuffixesOnly(dir) ==
    /\ FileName \in Names(dir)
    /\ \A n \in Names(dir) :
          \/ n = FileName
          \/ /\ Len(n) > Len(FileName) + 1
             /\ SubSeq(n, 1, Len(FileName) + 1) = FileName \o "."
             /\ IsInt(SubSeq(n, Len(FileName) + 2, Len(n)))

\* C9: for a directory of filename and files filename.<integer>, 0
\* included, no rename of move_recursively targets a name that exists at
\* that moment: the number of files and their contents are the same after
\* the call as before.
C9_NoRenameOverwrites ==
    (rotations >= 1 /\ IntegerSuffixesOnly(before)) =>
        /\ \A i \in 1..Len(moves) : ~moves[i].clobbers
        /\ Cardinality(directory) = Cardinality(before)
        /\ {f.content : f \in directory} = {f.content : f \in before}

(***************************************************************************)
(* Claims about check_tasks.                                               *)
(***************************************************************************)
\* the number of results whose job['success'] is false
Failed == Cardinality({i \in 1..Len(results) : ~results[i]})

\* C10: check_tasks exits with status 1 on no results; else with
\* counter/len(results) >= thresh it exits with status 1 when check is true
\* and only prints a warning when check is false; below thresh it returns
\* and prints nothing.  With thresh 0.25 and check true, 2 failures of 5
\* exit and 1 of 5 does not; a rate equal to thresh is over the threshold.
C10_FailureTriage ==
    task.pc # "called" =>
        /\ Len(results) = 0 => task.pc = "exited" /\ task.exit = 1
        /\ (Len(results) > 0 /\ Failed * thresh.den >= thresh.num * Len(results)) =>
              IF check
              THEN task.pc = "exited" /\ task.exit = 1
              ELSE /\ task.pc = "returned"
                   /\ task.out = <<"WARNING: % of the calculations failed!">>
        /\ (Len(results) > 0 /\ Failed * thresh.den < thresh.num * Len(results)) =>
              task.pc = "returned" /\ task.out = <<>>
        /\ (Len(results) = 5 /\ thresh = [num |-> 1, den |-> 4] /\ check) =>
              /\ Failed = 2 => task.pc = "exited" /\ task.exit = 1
              /\ Failed = 1 => task.pc = "returned"

C10_Witness ==
    /\ task.pc = "exited" /\ task.exit = 1
    /\ Len(results) = 4 /\ Failed = 1
    /\ thresh = [num |-> 1, den |-> 4] /\ check

(***************************************************************************)
(* Claims about rankdata, pearson and spearman.                            *)
(***************************************************************************)
\* the elements of a that are smaller than a[i], and those equal to it
Smaller(a, i) == Cardinality({j \in 1..Len(a) : a[j] < a[i]})
Equal(a, i) == Cardinality({j \in 1..Len(a) : a[j] = a[i]})

\* C11: rankdata(a) has the length of a; the rank of a[i] is the number of
\* smaller elements plus (the number of equal elements + 1) / 2, the
\* average of the 1-based positions of the tied values; the ranks of
\* [3,1,2,2] are [4, 1, 2.5, 2.5]; the ranks sum to n(n+1)/2.  (corr.ranks
\* holds twice the ranks.)
C11_AverageRanks ==
    corr.op = "rankdata" =>
        LET a == series.A
            n == Len(a)
        IN  /\ Len(corr.ranks) = n
            /\ \A i \in 1..n :
                  corr.ranks[i] = 2 * Smaller(a, i) + Equal(a, i) + 1
            /\ a = <<3, 1, 2, 2>> => corr.ranks = <<8, 2, 5, 5>>
            /\ Sum(corr.ranks) = n * (n + 1)

C11_Witness ==
    /\ corr.op = "rankdata"
    /\ series.A = <<3, 1, 2, 2>>
    /\ corr.ranks = <<8, 2, 5, 5>>

\* the strictly increasing functions on the values of the lists
Increasing ==
    {f \in [SeriesValues -> 1..(MaxValue + 3)] :
        \A x, y \in SeriesValues : x < y => f[x] < f[y]}

Apply(f, s) == [i \in 1..Len(s) |-> f[s[i]]]

\* C12: a strictly increasing f leaves the ranks as they are,
\* rankdata(f(A)) = rankdata(A), and so spearman(f(A), f(B)) =
\* spearman(A, B) for lists of equal length; spearman(A, B) is
\* pearson(rankdata(A), rankdata(B)).
C12_SpearmanMonotoneInvariant ==
    /\ corr.op = "rankdata" =>
          \A f \in Increasing : rankdata(Apply(f, series.A)) = corr.ranks
    /\ (corr.op = "spearman" /\ Len(series.A) = Len(series.B)) =>
          /\ \A f \in Increasing :
                StatCall("spearman",
                         spearman(Apply(f, series.A), Apply(f, series.B))) = corr
          /\ corr = StatCall("spearman",
                             pearson(rankdata(series.A), rankdata(series.B)))

C12_Witness ==
    /\ corr.op = "spearman"
    /\ series.A = <<2, 1, 2>> /\ series.B = <<1, 2, 2>>
    /\ ~corr.raised /\ corr.value.num # 0
    /\ \E f \in Increasing : Apply(f, series.A) = <<4, 1, 4>>

\* every element of the list is the same
ZeroVariance(s) == \A i, j \in 1..Len(s) : s[i] = s[j]

\* C13: for lists of equal length n >= 1 of which at least one has zero
\* variance (the one-element list included) pearson prints a warning and
\* returns 0.0; it raises nothing.
C13_ZeroVarianceGuarded ==
    (/\ corr.op = "pearson"
     /\ Len(series.A) = Len(series.B) /\ Len(series.A) >= 1
     /\ ZeroVariance(series.A) \/ ZeroVariance(series.B)) =>
        /\ ~corr.raised
        /\ corr.value = Zero
        /\ corr.out = <<"WARNING:  float division by zero">>

(***************************************************************************)
(* Claims about calc_boltzmannweights.                                     *)
(***************************************************************************)
WeightsCalled == weighting.op = "calc_boltzmannweights"

\* the weight 1.0
One == Some([num |-> 1, den |-> 1])

\* C14: called with exactly one conformer calc_boltzmannweights sets its
\* bm_weight to 1.0 and returns, whatever its energy (None included) and
\* whatever T (a T that float() cannot convert included).
C14_SingletonWeightIsOne ==
    (WeightsCalled /\ Len(weighting.prev) = 1) =>
        /\ ~weighting.raised
        /\ bm_confs = [weighting.prev EXCEPT ![1].bm_weight = One]

C14_Witness ==
    /\ WeightsCalled /\ Len(weighting.prev) = 1
    /\ ~weighting.prev[1].free_energy.set
    /\ temperature = NoneType
    /\ bm_confs[1].bm_weight = One

\* gi * exp(-(E - Emin) * AU2J / (KB * T)) for a conformer d steps above the
\* minimum at T = 298.15 K / k, as a multiple of 2^-top
Boltzmann(g, d, k, top) == IF d * k > UnderflowExp THEN 0 ELSE g * 2 ^ (top - d * k)

\* C15: for two or more conformers that all have the property set, every
\* conformer gets a bm_weight in [0, 1] that is its own term
\* g_i * exp(-(E_i - E_min) * AU2J / (KB * T)) over the sum of all terms, E
\* being the property; the weights sum to 1, and of two conformers with
\* equal g the one with the lower energy never has the smaller weight.
C15_WeightsNormalised ==
    (/\ WeightsCalled
     /\ Len(weighting.prev) >= 2
     /\ \A i \in 1..Len(weighting.prev) :
           Attr(weighting.prev[i], weighting.property).set) =>
        /\ ~weighting.raised
        /\ LET n == Len(bm_confs)
               k == DefaultT \div weighting.T.val
               E(i) == Attr(bm_confs[i], weighting.property).val
               Emin == MinOf({E(i) : i \in 1..n})
               top == MaxOf({(E(i) - Emin) * k : i \in 1..n}
                            \cap 0..UnderflowExp)
               term(i) == Boltzmann(bm_confs[i].gi, E(i) - Emin, k, top)
               total == Sum([i \in 1..n |-> term(i)])
               w(i) == bm_confs[i].bm_weight.val
           IN  /\ n = Len(weighting.prev)
               /\ \A i \in 1..n :
                     /\ bm_confs[i].bm_weight.set
                     /\ w(i).den > 0 /\ 0 <= w(i).num /\ w(i).num <= w(i).den
                     /\ w(i).num * total = term(i) * w(i).den
               /\ \A i \in 1..n : w(i).den = w(1).den
               /\ Sum([i \in 1..n |-> w(i).num]) = w(1).den
               /\ \A i, j \in 1..n :
                     (bm_confs[i].gi = bm_confs[j].gi /\ E(i) <= E(j)) =>
                         w(i).num * w(j).den >= w(j).num * w(i).den

\* float(T) raises an exception
Unconvertible(T) ==
    T.type = "NoneType" \/ (T.type = "str" /\ ~IsFloat(T.text))

\* T is 0 once converted
IsZero(T) ==
    (T.type = "float" /\ T.val = 0)
    \/ (T.type = "str" /\ IsFloat(T.text) /\ Float(T.text) = 0)

\* C16: with two or more conformers a T that float() cannot convert (a
\* non-numeric string, None) is replaced by 298.15 and the computation goes
\* on; a T equal to 0 is replaced by 0.00001; no exception caused by T
\* leaves the function.
C16_TemperatureCoerced ==
    (WeightsCalled /\ Len(weighting.prev) >= 2) =>
        /\ Unconvertible(temperature) => weighting.T = Number(DefaultT)
        /\ IsZero(temperature) => weighting.T = Number(EpsilonT)
        /\ weighting.T.type = "float"

(***************************************************************************)
(* Claims about get_energy_from_ensemble.                                  *)
(***************************************************************************)
\* the function was called, with a config that has the attributes it reads
\* (nat, maxconf and, for the message about a short file, nconf)
EnergiesRead ==
    /\ reading.op = "get_energy_from_ensemble"
    /\ ensemble.exists /\ ensemble.nconf.set

\* the ids of the conformers the function was called with
ReadIds == {reading.prev[i].id : i \in 1..Len(reading.prev)}

\* the place of the energy line of the conformer id in the file: the second
\* line of its block of nat + 2 lines
PlaceOf(id) == (id - 1) * (ensemble.nat + 2) + 2

\* every conformer of the call has an energy line in the file
LinesThere == \A id \in ReadIds : PlaceOf(id) <= Len(ensemble.lines)

\* the energy line of the conformer id
LineOf(id) == ensemble.lines[PlaceOf(id)]

\* the line holds an element that float() converts
Parseable(line) == \E i \in 1..Len(Split(line)) : IsFloat(Split(line)[i])

\* the first such element, as a number
FirstNumber(line) ==
    LET elements == Split(line)
        first == CHOOSE i \in 1..Len(elements) :
                    /\ IsFloat(elements[i])
                    /\ \A j \in 1..(i - 1) : ~IsFloat(elements[j])
    IN  Float(elements[first])

\* the lowest energy of the conformers of the call
LowestRead == MinOf({FirstNumber(LineOf(id)) : id \in {x \in ReadIds : Parseable(LineOf(x))}})

\* the conformer id as the call left it, and as it was given to the call
After(id) == CHOOSE c \in Range(members) : c.id = id
Before(id) == CHOOSE c \in Range(reading.prev) : c.id = id

\* C17: when the energy line of some id holds no float while another id
\* has a valid energy, the call raises nothing: that id's xtb_energy is
\* None and its rel_xtb_energy is not assigned, and every other conformer
\* gets its xtb_energy and rel_xtb_energy, wherever the unparseable id stands
\* in id order.
C17_UnparseableLineTolerated ==
    (/\ EnergiesRead /\ LinesThere
     /\ \E id \in ReadIds : ~Parseable(LineOf(id))
     /\ \E id \in ReadIds : Parseable(LineOf(id))) =>
        /\ ~reading.raised
        /\ \A id \in ReadIds :
              IF Parseable(LineOf(id))
              THEN /\ After(id).xtb_energy = Some(FirstNumber(LineOf(id)))
                   /\ After(id).rel_xtb_energy =
                         Some(FirstNumber(LineOf(id)) - LowestRead)
              ELSE /\ After(id).xtb_energy = None
                   /\ After(id).rel_xtb_energy = Before(id).rel_xtb_energy

\* C18: when all energy lines are parseable, each conformer's xtb_energy is
\* the first float of line (id-1)*(nat+2)+1 of the file and its
\* rel_xtb_energy is (xtb_energy - the lowest xtb_energy of the given
\* conformers) * AU2KCAL: it is >= 0, and it is 0 for every conformer that
\* holds the lowest energy.
C18_RelativeToLowest ==
    (/\ EnergiesRead /\ LinesThere /\ ReadIds # {}
     /\ \A id \in ReadIds : Parseable(LineOf(id))) =>
        /\ ~reading.raised
        /\ Len(members) = Len(reading.prev)
        /\ \A id \in ReadIds :
              /\ After(id).xtb_energy =
                    Some(FirstNumber(
                        ensemble.lines[(id - 1) * (ensemble.nat + 2) + 2]))
              /\ After(id).rel_xtb_energy.set
              /\ After(id).rel_xtb_energy.val =
                    After(id).xtb_energy.val - LowestRead
              /\ After(id).rel_xtb_energy.val >= 0
              /\ After(id).xtb_energy.val = LowestRead =>
                    After(id).rel_xtb_energy.val = 0

C18_Witness ==
    /\ EnergiesRead /\ LinesThere /\ ~reading.raised
    /\ ReadIds = {1, 2}
    /\ LineOf(1) = "E -10.0 7" /\ LineOf(2) = "-10.5"
    /\ After(1).rel_xtb_energy = Some(5)
    /\ After(2).rel_xtb_energy = Some(0)

\* the file has 3 blocks of 2 atoms with the energies -10.0, -10.5, -10.5
\* and the call was made for the ids 1, 2, 3
Scenario ==
    /\ EnergiesRead
    /\ ensemble.nat = 2
    /\ Len(ensemble.lines) = 12
    /\ ReadIds = {1, 2, 3}
    /\ LineOf(1) = "E -10.0 7" /\ LineOf(2) = "-10.5" /\ LineOf(3) = "-10.5"

\* C19 as stated: in the scenario the relative energies are 0.0 for id 1
\* and -0.5 * AU2KCAL for the ids 2 and 3, which are the minimal ones.
C19_ScenarioAsStated ==
    Scenario =>
        /\ After(1).rel_xtb_energy = Some(0)
        /\ After(2).rel_xtb_energy = Some(0 - 5)
        /\ After(3).rel_xtb_energy = Some(0 - 5)
        /\ After(2).xtb_energy.val = LowestRead
        /\ After(3).xtb_energy.val = LowestRead

\* C19, amended: in the scenario the relative energies are 0.5 * AU2KCAL
\* for id 1 and 0.0 for the ids 2 and 3, which both hold the lowest energy.
C19_ScenarioRelativeToLowest ==
    Scenario =>
        /\ ~reading.raised
        /\ After(1).rel_xtb_energy = Some(5)
        /\ After(2).rel_xtb_energy = Some(0)
        /\ After(3).rel_xtb_energy = Some(0)
        /\ After(2).xtb_energy.val = LowestRead
        /\ After(3).xtb_energy.val = LowestRead

C19_Witness ==
    /\ Scenario
    /\ After(1).xtb_energy = Some(0 - 100)
    /\ After(1).rel_xtb_energy = Some(5)
    /\ After(3).rel_xtb_energy = Some(0)

\* C20: when no given conformer has a parseable energy line (or none is
\* given) a warning is printed, the function returns and raises nothing,
\* and no xtb_energy and no rel_xtb_energy is assigned or changed.
C20_NoValidEnergyNoAssignment ==
    (/\ EnergiesRead /\ LinesThere
     /\ \A id \in ReadIds : ~Parseable(LineOf(id))) =>
        /\ ~reading.raised
        /\ reading.returned = "None"
        /\ \E i \in 1..Len(reading.out) :
              reading.out[i] = "WARNING: Can't calculate rel_xtb_energy!"
        /\ Range(members) = Range(reading.prev)

C20_Witness ==
    /\ EnergiesRead /\ LinesThere
    /\ ReadIds = {1, 2}
    /\ LineOf(1) = "E x" /\ LineOf(2) = "E x"
    /\ reading.returned = "None"
    /\ After(1).xtb_energy = Stale

(***************************************************************************)
(* Further claims about get_energy_from_ensemble, pearson,                 *)
(* calc_boltzmannweights, move_recursively and crest_routine.              *)
(***************************************************************************)
\* C21: when the ensemble file has fewer than maxconf * (nat + 2) lines,
\* get_energy_from_ensemble prints an error and goes on to its end without
\* raising, for the conformers 1..maxconf, and the conformers whose blocks
\* are in the file get their energies.
C21_ShortFileTolerated ==
    (/\ EnergiesRead
     /\ ensemble.maxconf * (ensemble.nat + 2) > Len(ensemble.lines)
     /\ ReadIds = 1..ensemble.maxconf
     /\ \A id \in ReadIds :
           PlaceOf(id) <= Len(ensemble.lines) => Parseable(LineOf(id))) =>
        /\ reading.out # <<>>
        /\ SubSeq(reading.out[1], 1, 6) = "ERROR:"
        /\ ~reading.raised
        /\ \A id \in ReadIds :
              PlaceOf(id) <= Len(ensemble.lines) =>
                  After(id).xtb_energy = Some(FirstNumber(LineOf(id)))

\* C27: when A and B differ in length, pearson prints an error and still
\* returns a number, without raising, whichever of the two is the shorter.
C27_LengthMismatchTolerated ==
    (/\ corr.op = "pearson"
     /\ Len(series.A) # Len(series.B)
     /\ Len(series.A) >= 2 /\ Len(series.B) >= 2) =>
        /\ corr.out # <<>>
        /\ corr.out[1] = "ERROR in PEARSON lists are not of equal length!"
        /\ ~corr.raised

\* the weights of bm_confs are those of the terms
\* g_i * exp(-(E_i - E_min) * AU2J / (KB * T)) with E the given attribute
WeightsComputedFrom(property) ==
    LET n == Len(bm_confs)
        k == DefaultT \div weighting.T.val
        E(i) == Attr(bm_confs[i], property).val
        Emin == MinOf({E(i) : i \in 1..n})
        top == MaxOf({(E(i) - Emin) * k : i \in 1..n} \cap 0..UnderflowExp)
        term(i) == Boltzmann(bm_confs[i].gi, E(i) - Emin, k, top)
        total == Sum([i \in 1..n |-> term(i)])
    IN  \A i \in 1..n :
           /\ bm_confs[i].bm_weight.set
           /\ bm_confs[i].bm_weight.val.num * total
                 = term(i) * bm_confs[i].bm_weight.val.den

\* C25: for two or more conformers every weight is computed from the
\* attribute named by the property argument, E_min being the minimum of
\* that attribute: the weights are a function of that attribute, gi and T
\* alone, whatever free_energy holds.
C25_WeightsFromProperty ==
    (/\ WeightsCalled
     /\ Len(weighting.prev) >= 2
     /\ \A i \in 1..Len(weighting.prev) :
           Attr(weighting.prev[i], weighting.property).set
     /\ temperature # NoneType) =>
        /\ ~weighting.raised
        /\ WeightsComputedFrom(weighting.property)

\* C28: with two or more conformers of which none has the property set, an
\* error is printed, the function returns without raising and no bm_weight
\* is assigned.
C28_NoPropertyNoWeights ==
    (/\ WeightsCalled
     /\ Len(weighting.prev) >= 2
     /\ \A i \in 1..Len(weighting.prev) :
           ~Attr(weighting.prev[i], weighting.property).set
     /\ temperature # NoneType) =>
        /\ "ERROR: Boltzmann weight can not be calculated!" \in Range(weighting.out)
        /\ ~weighting.raised
        /\ bm_confs = weighting.prev

\* the name is filename.<integer>
IsBackupName(n) ==
    /\ Len(n) > Len(FileName) + 1
    /\ SubSeq(n, 1, Len(FileName) + 1) = FileName \o "."
    /\ IsInt(SubSeq(n, Len(FileName) + 2, Len(n)))

\* C26: move_recursively renames only the file named filename and the files
\* named filename.<integer>; every other file keeps its name, filename.save,
\* filename.save.1 and a file with a prefix before filename included.
C26_OthersKeepTheirNames ==
    rotations >= 1 =>
        \A f \in before :
            (f.name # FileName /\ ~IsBackupName(f.name)) => f \in directory

\* the tags file has survivor lines and empty lines only
BlankLinesOnly ==
    \A i \in 1..Len(tags.lines) :
        tags.lines[i] = "" \/ Len(Split(tags.lines[i])) >= 2

\* C24: with crestcheck true the survivors are the tags of the non-empty
\* lines of enso.tags; empty lines are skipped and do not change which
\* conformers are removed.
C24_BlankLinesSkipped ==
    (CrestReturned /\ call.crestcheck /\ call.tags_opened /\ BlankLinesOnly) =>
        \A i \in 1..Len(call.conflist \o call.prev) :
            LET c == (call.conflist \o call.prev)[i]
            IN  HasId(store_confs, c.id) <=> ~IsSurvivor(c.id)

\* C29: a pass in which the tool writes no enso.tags moves no conformer,
\* also when an enso.tags of an earlier pass is in the scratch directory.
C29_StaleTagsUnused ==
    (CrestReturned /\ call.crestcheck /\ ~call.wrote) =>
        /\ conformers = call.conflist
        /\ prev_calculated = call.prev
        /\ store_confs = call.store

\* C30: a conformer only goes from active to removed: one that is in
\* store_confs is in no active list after any later call, and no call
\* takes an element out of store_confs.
C30_RemovedStaysRemoved ==
    [][/\ \A id \in IdsOf(store_confs) :
             /\ id \in IdsOf(store_confs')
             /\ id \notin IdsOf(conformers' \o prev_calculated')
       /\ Len(store_confs') >= Len(store_confs)
       /\ SubSeq(store_confs', 1, Len(store_confs)) = store_confs]_vars

C30_Witness ==
    /\ call.op # "none"
    /\ call.store # <<>>
    /\ Len(store_confs) > Len(call.store)

(***************************************************************************)
(* Claims about printout.                                                  *)
(***************************************************************************)
PrintoutCalled == printed.op = "printout"

\* a line printed that is no line of the table
IsDiagnostic(line) ==
    \/ line = ""
    \/ line = "Lists of uneqal length!"
    \/ (Len(line) >= 7 /\ SubSeq(line, 1, 7) = "ERRROR ")

\* the lines of the file below the header and the two descriptions
DataRows == SubSeq(outfile.lines, 4, Len(outfile.lines))

EndsWith(s, t) == Len(s) >= Len(t) /\ SubSeq(s, Len(s) - Len(t) + 1, Len(s)) = t

\* the conformer of the k-th smallest id (the ids are 1..n)
ConfOfId(k) ==
    CHOOSE c \in Range(printed.prev.calculate) : c.id = k

\* row k is the row of the conformer of the k-th smallest id, and a call
\* that returns has written a row for every conformer
RowsInOrder ==
    /\ ~printed.raised => Len(DataRows) = Len(printed.prev.calculate)
    /\ \A k \in 1..Len(DataRows) :
          "id" \in Range(printed.prev.columncall) =>
              Contains(DataRows[k], "CONF" \o Str(k))

\* a row ends in the marker iff its free_energy equals minfree
MarkersRight ==
    \A k \in 1..Len(DataRows) :
        EndsWith(DataRows[k], Marker)
            <=> (ConfOfId(k).free_energy = printed.prev.minfree)

\* C22, as stated: the rows are in ascending order of id, a row has the
\* marker iff its free_energy equals minfree, and the lines of the file are
\* exactly the lines printed to the console.
C22_FileIsConsole ==
    (PrintoutCalled /\ ~printed.raised) =>
        /\ RowsInOrder
        /\ MarkersRight
        /\ outfile.lines = printed.console

\* C22, amended: the rows are in ascending order of id, a row has the marker
\* iff its free_energy equals minfree, and the lines of the file are exactly
\* the lines of the table printed to the console; the messages printed
\* before the table are on the console only.
C22_TableLinesToBoth ==
    (PrintoutCalled /\ printed.opened) =>
        /\ RowsInOrder
        /\ MarkersRight
        /\ \E d \in 0..Len(printed.console) :
              /\ \A i \in 1..d : IsDiagnostic(printed.console[i])
              /\ SubSeq(printed.console, d + 1, Len(printed.console))
                    = outfile.lines

C22_Witness ==
    /\ PrintoutCalled /\ ~printed.raised
    /\ Len(DataRows) = 2
    /\ printed.prev.calculate[1].id = 2
    /\ EndsWith(DataRows[1], Marker) /\ ~EndsWith(DataRows[2], Marker)
    /\ Len(printed.console) > Len(outfile.lines)

\* a list differs in length from columncall
Mismatch(a) ==
    \/ Len(a.columnheader) # Len(a.columncall)
    \/ Len(a.columndescription) # Len(a.columncall)
    \/ Len(a.columnformat) # Len(a.columncall)

\* a value does not suit the format of its column, or there is no value
FormattingFails(a) ==
    \/ a.calculate = <<>>
    \/ \E j \in 1..Len(a.columncall), k \in 1..Len(a.calculate) :
          /\ j <= Len(a.columnformat)
          /\ Call(a.columncall[j], a.calculate[k]).type
                # (IF a.columnformat[j].set THEN "float" ELSE "str")

\* C23: when a list differs in length from columncall or a value cannot be
\* formatted, printout does not raise, prints a message and renders the
\* table with width 12 for every column.
C23_FallbackForAllColumns ==
    (PrintoutCalled
        /\ (Mismatch(printed.prev) \/ FormattingFails(printed.prev))) =>
        /\ ~printed.raised
        /\ \E i \in 1..Len(printed.console) :
              printed.console[i] # "" /\ IsDiagnostic(printed.console[i])
        /\ Len(outfile.lines[1])
              = (FallbackWidth + 1) * Len(printed.prev.columncall) - 1

====
